---- MODULE Spec2Model ----
(***************************************************************************)
(* Scheduling and validation engine of the smart calendar assistant:       *)
(* SmartScheduler (src/src/scheduler/smart_scheduler.py), the iterative    *)
(* SchedulingValidator (src/src/scheduler/scheduling_validator.py), the    *)
(* CalendarManager (src/src/calendar/calendar_manager.py) and the          *)
(* LLMClient ranking advisor (src/src/ai_agent/llm_client.py).             *)
(*                                                                         *)
(* Time.  A datetime is a number of minutes since 00:00 of day 0, and day  *)
(* 0 is a Monday, so weekday(t) is Python's datetime.weekday().  A         *)
(* timestamp string 'YYYY-MM-DDTHH:MM:SS+05:30' is the record              *)
(* [date, hh, mm] of its fields (seconds are 00 for every value the        *)
(* engine formats); strftime and fromisoformat convert between the two.    *)
(***************************************************************************)
EXTENDS Integers, Sequences, FiniteSets, TLC

VARIABLES
    now,                     \* the wall clock, datetime.now()
    pc,                      \* position: "fetch", "loop", "done"; "call" before a direct call
    request_data,            \* the incoming request record
    meeting_params,          \* parsed parameters, rewritten by _apply_corrections
    providerEvents,          \* the calendar provider's events, per participant
    _calendar_cache,         \* CalendarManager._calendar_cache
    _cache_expiry,           \* CalendarManager._cache_expiry
    heap,                    \* calendar objects: "original", "working"
    iteration,               \* validate_and_optimize_scheduling: iteration
    best_result,             \* validate_and_optimize_scheduling: best_result
    best_score,              \* validate_and_optimize_scheduling: best_score
    returned,                \* the record returned by the validation loop
    before_snapshot,         \* validate_and_optimize_scheduling: before_snapshot
    attempts,                \* history: one entry per attempt that was scored
    ticks,                   \* number of clock advances so far
    call                     \* the last direct call of one function: [fn, args, out]

vars == <<now, pc, request_data, meeting_params, providerEvents, _calendar_cache,
          _cache_expiry, heap, iteration, best_result, best_score, returned,
          before_snapshot, attempts, ticks, call>>

-----------------------------------------------------------------------------
(* Configuration, config/settings.py *)

BUSINESS_HOURS_START == 9
BUSINESS_HOURS_END == 18

-----------------------------------------------------------------------------
(* datetime arithmetic *)

MinutesPerDay == 24 * 60

days(n) == n * MinutesPerDay

\* datetime.strftime('%Y-%m-%dT%H:%M:%S+05:30')
strftime(t) ==
    [date |-> t \div MinutesPerDay,
     hh   |-> (t % MinutesPerDay) \div 60,
     mm   |-> t % 60]

\* datetime.fromisoformat(s.replace('+05:30', ''))
fromisoformat(s) == (s.date * 24 + s.hh) * 60 + s.mm

weekday(t) == (t \div MinutesPerDay) % 7

hour(t) == (t % MinutesPerDay) \div 60

\* datetime.replace(hour=h, minute=m, second=0, microsecond=0)
replace(t, h, m) == (t \div MinutesPerDay) * MinutesPerDay + h * 60 + m

Max(a, b) == IF a >= b THEN a ELSE b
Min(a, b) == IF a <= b THEN a ELSE b

-----------------------------------------------------------------------------
(* Constraint texts.  The engine only asks whether a keyword occurs in the *)
(* lower-cased text (Python's `in`); Keywords gives, for each text of the  *)
(* model, the keywords that occur in it.                                   *)

DayNames == <<"monday", "tuesday", "wednesday", "thursday", "friday",
              "saturday", "sunday">>

ConstraintTexts ==
    {"flexible", "tomorrow", "today", "next week", "this week",
     "thursday morning"} \cup {DayNames[i] : i \in 1..7}

Keywords(text) ==
    CASE text = "flexible" -> {}
      [] text = "thursday morning" -> {"thursday"}
      [] OTHER -> {text}

contains(text, word) == word \in Keywords(text)

-----------------------------------------------------------------------------
(* SmartScheduler._times_overlap *)

(* An overlap test on closed intervals: touching counts as overlapping *)
_times_overlap_closed(start1, end1, start2, end2) ==
    /\ fromisoformat(start1) <= fromisoformat(end2)
    /\ fromisoformat(end1) >= fromisoformat(start2)

_times_overlap(start1, end1, start2, end2) ==
    LET dt_start1 == fromisoformat(start1)
        dt_end1   == fromisoformat(end1)
        dt_start2 == fromisoformat(start2)
        dt_end2   == fromisoformat(end2)
    IN  dt_start1 < dt_end2 /\ dt_end1 > dt_start2

(* A parser that sends a request for today's weekday to next week at any  *)
(* hour                                                                    *)
_parse_time_constraints_always_next_week(time_constraints, now_) ==
    LET c == time_constraints
        current_weekday == weekday(now_)
        named == {i \in 1..7 : contains(c, DayNames[i])}
        range ==
            IF contains(c, "next week") THEN
                LET start_date == now_ + days(7 - current_weekday)
                IN  <<start_date, start_date + days(7)>>
            ELSE IF contains(c, "tomorrow") THEN
                <<now_ + days(1), now_ + days(2)>>
            ELSE IF contains(c, "today") THEN
                <<now_, now_ + days(1)>>
            ELSE IF contains(c, "this week") THEN
                <<now_, now_ + days(6 - current_weekday)>>
            ELSE IF named # {} THEN
                LET target_day == (CHOOSE i \in named : \A j \in named : i <= j) - 1
                    d0 == (target_day - current_weekday) % 7
                    d1 == IF d0 = 0
                          THEN 7
                          ELSE d0
                    d2 == IF d1 = 0 /\ target_day < current_weekday THEN 7 ELSE d1
                    s2 == now_ + days(d2)
                    d3 == IF (target_day - current_weekday) % 7 = 0
                          THEN 7 ELSE (target_day - current_weekday) % 7
                    start_date == IF weekday(s2) # target_day THEN now_ + days(d3) ELSE s2
                IN  <<start_date, start_date + days(1)>>
            ELSE
                <<now_ + days(1), now_ + days(8)>>
    IN  <<strftime(replace(range[1], 0, 0)), strftime(replace(range[2], 23, 59))>>

(* SmartScheduler._parse_time_constraints: the date window, as the pair of *)
(* strings start 'T00:00:00' and end 'T23:59:59'.  At minute resolution    *)
(* 23:59:59 is 23:59: t <= 23:59:59 iff t <= 23:59 for every whole minute. *)
_parse_time_constraints(time_constraints, now_) ==
    LET c == time_constraints
        current_weekday == weekday(now_)
        named == {i \in 1..7 : contains(c, DayNames[i])}
        range ==
            IF contains(c, "next week") THEN
                LET start_date == now_ + days(7 - current_weekday)
                IN  <<start_date, start_date + days(7)>>
            ELSE IF contains(c, "tomorrow") THEN
                <<now_ + days(1), now_ + days(2)>>
            ELSE IF contains(c, "today") THEN
                <<now_, now_ + days(1)>>
            ELSE IF contains(c, "this week") THEN
                <<now_, now_ + days(6 - current_weekday)>>
            ELSE IF named # {} THEN
                LET target_day == (CHOOSE i \in named : \A j \in named : i <= j) - 1
                    d0 == (target_day - current_weekday) % 7
                    d1 == IF d0 = 0
                          THEN (IF hour(now_) >= BUSINESS_HOURS_END THEN 7 ELSE 0)
                          ELSE d0
                    d2 == IF d1 = 0 /\ target_day < current_weekday THEN 7 ELSE d1
                    s2 == now_ + days(d2)
                    d3 == IF (target_day - current_weekday) % 7 = 0
                          THEN 7 ELSE (target_day - current_weekday) % 7
                    start_date == IF weekday(s2) # target_day THEN now_ + days(d3) ELSE s2
                IN  <<start_date, start_date + days(1)>>
            ELSE
                <<now_ + days(1), now_ + days(8)>>
    IN  <<strftime(replace(range[1], 0, 0)), strftime(replace(range[2], 23, 59))>>

(* _find_preferred_time_slot that takes 09:00 of today when the named day  *)
(* is today, whatever the hour                                             *)
_find_preferred_time_slot_of_today(time_constraints, duration, now_) ==
    LET c == time_constraints
        wd == weekday(now_)
        NextDay(target) == (target - wd) % 7
        NextBusinessDay ==
            LET t1 == now_ + days(1)
            IN  IF weekday(t1) = 5 THEN t1 + days(2)
                ELSE IF weekday(t1) = 6 THEN t1 + days(1)
                ELSE t1
        preferred_start ==
            IF contains(c, "thursday") THEN replace(now_ + days(NextDay(3)), 9, 0)
            ELSE IF contains(c, "monday") THEN replace(now_ + days(NextDay(0)), 9, 0)
            ELSE IF contains(c, "tuesday") THEN replace(now_ + days(NextDay(1)), 9, 0)
            ELSE IF contains(c, "wednesday") THEN replace(now_ + days(NextDay(2)), 9, 0)
            ELSE IF contains(c, "friday") THEN replace(now_ + days(NextDay(4)), 9, 0)
            ELSE IF contains(c, "tomorrow") THEN replace(now_ + days(1), 9, 0)
            ELSE replace(NextBusinessDay, 9, 0)
        preferred_end == preferred_start + duration
    IN  <<strftime(preferred_start), strftime(preferred_end)>>

(* SmartScheduler._find_preferred_time_slot *)
_find_preferred_time_slot(time_constraints, duration, now_) ==
    LET c == time_constraints
        wd == weekday(now_)
        NextDay(target) ==
            LET d == (target - wd) % 7
            IN  IF d = 0 /\ hour(now_) >= 9 THEN 7 ELSE d
        NextBusinessDay ==
            LET t1 == now_ + days(1)
            IN  IF weekday(t1) = 5 THEN t1 + days(2)
                ELSE IF weekday(t1) = 6 THEN t1 + days(1)
                ELSE t1
        preferred_start ==
            IF contains(c, "thursday") THEN
                LET d0 == (3 - wd) % 7
                    d1 == IF d0 = 0
                          THEN (IF hour(now_) >= 18 THEN 7
                                ELSE IF hour(now_) >= 9 THEN 7 ELSE 0)
                          ELSE d0
                    d2 == IF d1 = 0 THEN 7 ELSE d1
                IN  replace(now_ + days(d2), 9, 0)
            ELSE IF contains(c, "monday") THEN replace(now_ + days(NextDay(0)), 9, 0)
            ELSE IF contains(c, "tuesday") THEN replace(now_ + days(NextDay(1)), 9, 0)
            ELSE IF contains(c, "wednesday") THEN replace(now_ + days(NextDay(2)), 9, 0)
            ELSE IF contains(c, "friday") THEN replace(now_ + days(NextDay(4)), 9, 0)
            ELSE IF contains(c, "tomorrow") THEN replace(now_ + days(1), 9, 0)
            ELSE replace(NextBusinessDay, 9, 0)
        preferred_end == preferred_start + duration
    IN  <<strftime(preferred_start), strftime(preferred_end)>>

-----------------------------------------------------------------------------
(* Calendar data.  An event is the dict [StartTime, EndTime, Summary]; a   *)
(* calendar_data dict is the sequence of its items [email, events], in     *)
(* insertion order, which is the order Python iterates it in.              *)

None == [none |-> TRUE]

RECURSIVE Flatten(_)
Flatten(seqs) ==
    IF seqs = <<>> THEN <<>> ELSE Head(seqs) \o Flatten(Tail(seqs))

emails(calendar_data) == [i \in 1..Len(calendar_data) |-> calendar_data[i].email]

(* SmartScheduler._find_conflicts *)
_find_conflicts(start_time, end_time, calendar_data) ==
    LET PerEmail(i) ==
            LET entry == calendar_data[i]
                Hit(event) == _times_overlap(start_time, end_time,
                                             event.StartTime, event.EndTime)
                hits == SelectSeq(entry.events, Hit)
            IN  [k \in 1..Len(hits) |->
                    [email   |-> entry.email,
                     event   |-> hits[k],
                     summary |-> hits[k].Summary,
                     start   |-> hits[k].StartTime,
                     end     |-> hits[k].EndTime]]
    IN  Flatten([i \in 1..Len(calendar_data) |-> PerEmail(i)])

(* _find_available_slots_on_date with slots of slot_duration = 30 minutes  *)
(* instead of the duration asked for                                       *)
_find_available_slots_on_date_of_slot_duration(target_date, duration_minutes, calendar_data, exclude_conflict) ==
    LET start_hour == 9
        end_hour == 18
        slot_duration == 30
        grid == Flatten([h \in 1..(end_hour - start_hour) |->
                    LET hr == start_hour + h - 1
                    IN  IF hr = end_hour - 1 THEN << <<hr, 0>> >>
                        ELSE << <<hr, 0>>, <<hr, 30>> >>])
        slot_start(g) == days(target_date) + g[1] * 60 + g[2]
        slot_end(g) == slot_start(g) + slot_duration
        Blocks(event, g) ==
            /\ ~(exclude_conflict # None /\ event = exclude_conflict.event)
            /\ _times_overlap(strftime(slot_start(g)), strftime(slot_end(g)),
                              event.StartTime, event.EndTime)
        is_free(g) ==
            \A i \in 1..Len(calendar_data) :
                \A k \in 1..Len(calendar_data[i].events) :
                    ~Blocks(calendar_data[i].events[k], g)
        free == SelectSeq(grid, is_free)
    IN  [k \in 1..Len(free) |->
            <<strftime(slot_start(free[k])), strftime(slot_end(free[k]))>>]

(* SmartScheduler._find_available_slots_on_date: the half-hour grid        *)
(* 09:00 .. 17:00 of target_date (the loop leaves out 17:30), each start   *)
(* kept when [start, start + duration) overlaps no event of any            *)
(* participant other than the excluded one.                                *)
_find_available_slots_on_date(target_date, duration_minutes, calendar_data, exclude_conflict) ==
    LET start_hour == 9
        end_hour == 18
        grid == Flatten([h \in 1..(end_hour - start_hour) |->
                    LET hr == start_hour + h - 1
                    IN  IF hr = end_hour - 1 THEN << <<hr, 0>> >>
                        ELSE << <<hr, 0>>, <<hr, 30>> >>])
        slot_start(g) == days(target_date) + g[1] * 60 + g[2]
        slot_end(g) == slot_start(g) + duration_minutes
        Blocks(event, g) ==
            /\ ~(exclude_conflict # None /\ event = exclude_conflict.event)
            /\ _times_overlap(strftime(slot_start(g)), strftime(slot_end(g)),
                              event.StartTime, event.EndTime)
        is_free(g) ==
            \A i \in 1..Len(calendar_data) :
                \A k \in 1..Len(calendar_data[i].events) :
                    ~Blocks(calendar_data[i].events[k], g)
        free == SelectSeq(grid, is_free)
    IN  [k \in 1..Len(free) |->
            <<strftime(slot_start(free[k])), strftime(slot_end(free[k]))>>]

(* SmartScheduler._find_alternative_slot_for_meeting *)
_find_alternative_slot_for_meeting(conflict, calendar_data) ==
    LET original_start == fromisoformat(conflict.start)
        original_end == fromisoformat(conflict.end)
        duration_minutes == original_end - original_start
        date == original_start \div MinutesPerDay
        same_day_slots == _find_available_slots_on_date(
                              date, duration_minutes, calendar_data, conflict)
        later(days_offset) ==
            IF (date + days_offset) % 7 < 5
            THEN _find_available_slots_on_date(
                     date + days_offset, duration_minutes, calendar_data, None)
            ELSE <<>>
        found == {d \in 1..7 : later(d) # <<>>}
    IN  IF same_day_slots # <<>> THEN same_day_slots[1]
        ELSE IF found # {}
             THEN later(CHOOSE d \in found : \A e \in found : d <= e)[1]
             ELSE None

(* SmartScheduler._apply_rescheduling: each reschedule rewrites, in the    *)
(* calendar of original.email, the first event whose StartTime, EndTime    *)
(* and Summary equal the conflict's.                                       *)
ApplyOne(calendar_data, reschedule) ==
    LET original == reschedule.original
        new_slot == reschedule.new_slot
        Match(event) == /\ event.StartTime = original.start
                        /\ event.EndTime = original.end
                        /\ event.Summary = original.summary
        Update(events) ==
            LET idx == {i \in 1..Len(events) : Match(events[i])}
            IN  IF idx = {} THEN events
                ELSE LET i == CHOOSE i \in idx : \A j \in idx : i <= j
                     IN  [events EXCEPT ![i].StartTime = new_slot[1],
                                        ![i].EndTime = new_slot[2]]
    IN  [e \in 1..Len(calendar_data) |->
            IF calendar_data[e].email = original.email
            THEN [calendar_data[e] EXCEPT !.events = Update(@)]
            ELSE calendar_data[e]]

RECURSIVE _apply_rescheduling(_, _)
_apply_rescheduling(calendar_data, rescheduled_meetings) ==
    IF rescheduled_meetings = <<>> THEN calendar_data
    ELSE _apply_rescheduling(ApplyOne(calendar_data, Head(rescheduled_meetings)),
                             Tail(rescheduled_meetings))

(* The relocation plan of SmartScheduler._priority_based_scheduling: for   *)
(* each conflict, in order, the slot found against the unchanged           *)
(* calendar_data; conflicts without a slot are left out.                   *)
RelocationPlan(conflicts, calendar_data) ==
    LET alt(k) == _find_alternative_slot_for_meeting(conflicts[k], calendar_data)
    IN  Flatten([k \in 1..Len(conflicts) |->
            IF alt(k) # None
            THEN << [original |-> conflicts[k], new_slot |-> alt(k)] >>
            ELSE <<>>])

-----------------------------------------------------------------------------
(* CalendarManager.  A CalendarEvent is [start_time, end_time, summary].   *)
(* The manager's state is mgr = [cache, expiry], the two dicts keyed by    *)
(* cache_key = <<email, start_date, end_date>>.                            *)

CacheMinutes == 5

(* CalendarEvent.to_dict *)
to_dict(event) ==
    [StartTime |-> event.start_time,
     EndTime   |-> event.end_time,
     Summary   |-> event.summary]

(* CalendarEvent.overlaps_with *)
overlaps_with(self, other_start, other_end) ==
    LET start1 == fromisoformat(self.start_time)
        end1   == fromisoformat(self.end_time)
        start2 == fromisoformat(other_start)
        end2   == fromisoformat(other_end)
    IN  start1 < end2 /\ end1 > start2

Put(dict, key, value) ==
    [k \in DOMAIN dict \cup {key} |-> IF k = key THEN value ELSE dict[k]]

Pop(dict, key) == [k \in DOMAIN dict \ {key} |-> dict[k]]

(* dict.update(new), and {**dict, **new} *)
Update(dict, new) ==
    [k \in DOMAIN dict \cup DOMAIN new |-> IF k \in DOMAIN new THEN new[k] ELSE dict[k]]

(* _is_cache_valid without the comparison with the expiry time *)
_is_cache_valid_without_expiry(cache_key, mgr, now_) ==
    [valid |-> cache_key \in DOMAIN mgr.cache, mgr |-> mgr]

(* CalendarManager._is_cache_valid: the answer, and the manager after the  *)
(* clean-up of an expired entry.                                           *)
_is_cache_valid(cache_key, mgr, now_) ==
    IF cache_key \notin DOMAIN mgr.cache THEN [valid |-> FALSE, mgr |-> mgr]
    ELSE IF cache_key \notin DOMAIN mgr.expiry \/ now_ > mgr.expiry[cache_key]
    THEN [valid |-> FALSE,
          mgr   |-> [cache |-> Pop(mgr.cache, cache_key),
                     expiry |-> Pop(mgr.expiry, cache_key)]]
    ELSE [valid |-> TRUE, mgr |-> mgr]

(* CalendarManager._cache_events *)
_cache_events(cache_key, events, mgr, now_) ==
    [cache  |-> Put(mgr.cache, cache_key, events),
     expiry |-> Put(mgr.expiry, cache_key, now_ + CacheMinutes)]

(* The provider's events().list(timeMin, timeMax, orderBy='startTime'):    *)
(* the events that end after timeMin and start before timeMax, in start    *)
(* order (the provider's calendars are kept in start order).               *)
ProviderList(provider, email, start_date, end_date) ==
    LET InWindow(event) ==
            /\ fromisoformat(event.end_time) > fromisoformat(start_date)
            /\ fromisoformat(event.start_time) <= fromisoformat(end_date)
    IN  SelectSeq(provider[email], InWindow)

(* A timestamp of the provider that datetime.fromisoformat does not read   *)
(* carries the field `malformed` next to the instant the provider holds.   *)
Parses(s) == "malformed" \notin DOMAIN s

(* CalendarManager.get_user_events.  answer is the provider's behaviour on *)
(* this call, "ok" or "fail" (HttpError or any other exception).  The loop *)
(* that logs the events (lines 155-170) parses every start and end inside  *)
(* the try block: a time it cannot read ends in the except clause too.     *)
get_user_events(email, start_date, end_date, mgr, now_, provider, answer) ==
    LET cache_key == <<email, start_date, end_date>>
        Raises(calendar_events) ==
            \E k \in 1..Len(calendar_events) :
                ~Parses(calendar_events[k].start_time) \/ ~Parses(calendar_events[k].end_time)
        Fetched(v, calendar_events) ==
            IF v.valid THEN [events |-> v.mgr.cache[cache_key], mgr |-> v.mgr]
            ELSE IF answer = "fail" \/ Raises(calendar_events)
            THEN [events |-> <<>>, mgr |-> v.mgr]
            ELSE [events |-> calendar_events,
                  mgr    |-> _cache_events(cache_key, calendar_events, v.mgr, now_)]
    IN  Fetched(_is_cache_valid(cache_key, mgr, now_),
                ProviderList(provider, email, start_date, end_date))

(* get_multiple_users_events that stops collecting at the first fetch that *)
(* failed                                                                  *)
RECURSIVE get_multiple_users_events_until_failure(_, _, _, _, _, _, _)
get_multiple_users_events_until_failure(order, start_date, end_date, mgr, now_, provider, answers) ==
    IF order = <<>> \/ answers[Head(order)] = "fail" THEN [results |-> <<>>, mgr |-> mgr]
    ELSE LET email == Head(order)
             Join(one, rest) ==
                 [results |-> <<[email |-> email, events |-> one.events]>> \o rest.results,
                  mgr     |-> rest.mgr]
             Then(one) ==
                 Join(one, get_multiple_users_events_until_failure(
                               Tail(order), start_date, end_date,
                               one.mgr, now_, provider, answers))
         IN  Then(get_user_events(email, start_date, end_date, mgr, now_,
                                  provider, answers[email]))

(* CalendarManager.get_multiple_users_events: one get_user_events per      *)
(* email (their cache keys differ); the result dict is filled in           *)
(* completion order, which is the order of `order`.                        *)
RECURSIVE get_multiple_users_events(_, _, _, _, _, _, _)
get_multiple_users_events(order, start_date, end_date, mgr, now_, provider, answers) ==
    IF order = <<>> THEN [results |-> <<>>, mgr |-> mgr]
    ELSE LET email == Head(order)
             Join(one, rest) ==
                 [results |-> <<[email |-> email, events |-> one.events]>> \o rest.results,
                  mgr     |-> rest.mgr]
             Then(one) ==
                 Join(one, get_multiple_users_events(Tail(order), start_date, end_date,
                                                     one.mgr, now_, provider, answers))
         IN  Then(get_user_events(email, start_date, end_date, mgr, now_,
                                  provider, answers[email]))

(* busy_periods.sort(key=lambda x: x[0]): a stable sort by start *)
RECURSIVE SortByStart(_)
SortByStart(periods) ==
    IF periods = <<>> THEN <<>>
    ELSE LET rest == SortByStart(Tail(periods))
             p == Head(periods)
             Before(q) == q[1] < p[1]
             NotBefore(q) == ~(q[1] < p[1])
         IN  SelectSeq(rest, Before) \o <<p>> \o SelectSeq(rest, NotBefore)

(* CalendarManager.find_free_slots, lines 257-322: the walk over the       *)
(* sorted busy periods.                                                    *)
RECURSIVE WalkBusy(_, _, _)
WalkBusy(busy_periods, current_time, duration) ==
    IF busy_periods = <<>> THEN [free_slots |-> <<>>, current_time |-> current_time]
    ELSE LET busy_start == Head(busy_periods)[1]
             busy_end == Head(busy_periods)[2]
             slot_start == Max(current_time,
                               replace(current_time, BUSINESS_HOURS_START, 0))
             slot_end == Min(busy_start,
                             replace(current_time, BUSINESS_HOURS_END, 0))
             here == IF /\ current_time + duration <= busy_start
                        /\ slot_start + duration <= slot_end
                     THEN << <<strftime(slot_start), strftime(slot_start + duration)>> >>
                     ELSE <<>>
             rest == WalkBusy(Tail(busy_periods), Max(current_time, busy_end), duration)
         IN  [free_slots |-> here \o rest.free_slots, current_time |-> rest.current_time]

find_free_slots(events, start_date, end_date, duration_minutes) ==
    LET start_dt == fromisoformat(start_date)
        end_dt == fromisoformat(end_date)
        duration == duration_minutes
        busy_periods == SortByStart(
            [i \in 1..Len(events) |-> <<fromisoformat(events[i].start_time),
                                        fromisoformat(events[i].end_time)>>])
        walk == WalkBusy(busy_periods, start_dt, duration)
        current_time == walk.current_time
        slot_start == Max(current_time, replace(current_time, BUSINESS_HOURS_START, 0))
        slot_end == Min(end_dt, replace(current_time, BUSINESS_HOURS_END, 0))
        last == IF /\ current_time + duration <= end_dt
                   /\ slot_start + duration <= slot_end
                THEN << <<strftime(slot_start), strftime(slot_start + duration)>> >>
                ELSE <<>>
    IN  walk.free_slots \o last

(* Python's order on the timestamp strings and on pairs of them *)
StrLess(a, b) ==
    \/ a.date < b.date
    \/ a.date = b.date /\ a.hh < b.hh
    \/ a.date = b.date /\ a.hh = b.hh /\ a.mm < b.mm

PairLeq(x, y) ==
    \/ StrLess(x[1], y[1])
    \/ x[1] = y[1] /\ (x[2] = y[2] \/ StrLess(x[2], y[2]))

RECURSIVE sorted(_)
sorted(slots) ==
    IF slots = {} THEN <<>>
    ELSE LET first == CHOOSE x \in slots : \A y \in slots : PairLeq(x, y)
         IN  <<first>> \o sorted(slots \ {first})

Range(seq) == {seq[i] : i \in 1..Len(seq)}

(* CalendarManager.find_common_free_slots: find_free_slots fetches each    *)
(* participant's events again through get_user_events.                     *)
RECURSIVE FreeSlotSets(_, _, _, _, _, _, _, _)
FreeSlotSets(emails_, start_date, end_date, duration_minutes, mgr, now_, provider, answers) ==
    IF emails_ = <<>> THEN [sets |-> <<>>, mgr |-> mgr]
    ELSE LET email == Head(emails_)
             Join(free, rest) == [sets |-> <<free>> \o rest.sets, mgr |-> rest.mgr]
             Then(got) ==
                 Join(Range(find_free_slots(got.events, start_date, end_date,
                                            duration_minutes)),
                      FreeSlotSets(Tail(emails_), start_date, end_date,
                                   duration_minutes, got.mgr, now_, provider, answers))
         IN  Then(get_user_events(email, start_date, end_date, mgr, now_,
                                  provider, answers[email]))

(* The free slots of the first participant alone *)
find_common_free_slots_of_first(emails_, start_date, end_date, duration_minutes, mgr, now_, provider, answers) ==
    IF emails_ = <<>> THEN [slots |-> <<>>, mgr |-> mgr]
    ELSE LET First(all_free_slots) ==
                 [slots |-> sorted(all_free_slots.sets[1]), mgr |-> all_free_slots.mgr]
         IN  First(FreeSlotSets(emails_, start_date, end_date, duration_minutes,
                                mgr, now_, provider, answers))

find_common_free_slots(emails_, start_date, end_date, duration_minutes, mgr, now_, provider, answers) ==
    IF emails_ = <<>> THEN [slots |-> <<>>, mgr |-> mgr]
    ELSE LET Intersect(all_free_slots) ==
                 [slots |-> sorted({x \in all_free_slots.sets[1] :
                                       \A i \in 1..Len(all_free_slots.sets) :
                                           x \in all_free_slots.sets[i]}),
                  mgr   |-> all_free_slots.mgr]
         IN  Intersect(FreeSlotSets(emails_, start_date, end_date, duration_minutes,
                                    mgr, now_, provider, answers))

-----------------------------------------------------------------------------
(* LLMClient, the ranking advisor.  llm_response is what the model         *)
(* answered: None (no answer, no JSON, missing fields, malformed times) or *)
(* a record [start_time, end_time, reasoning]; Raise is the advisor call   *)
(* ending in an exception.                                                 *)

Raise == [raise |-> TRUE]

(* "Tomorrow" without the skip over the weekend *)
NextWeekday_without_weekend_skip(now_) == now_ + days(1)

(* tomorrow, moved past Saturday and Sunday: llm_client.py lines 609-612   *)
(* and smart_scheduler.py lines 464-466                                    *)
NextWeekday(now_) ==
    LET tomorrow == now_ + days(1)
    IN  IF weekday(tomorrow) = 5 THEN tomorrow + days(2)
        ELSE IF weekday(tomorrow) = 6 THEN tomorrow + days(1)
        ELSE tomorrow

(* LLMClient._fallback_scheduling *)
_fallback_scheduling(meeting_request, now_) ==
    LET start_time == replace(NextWeekday(now_), 10, 0)
        end_time == start_time + meeting_request.duration_minutes
    IN  [start_time |-> strftime(start_time),
         end_time   |-> strftime(end_time),
         reasoning  |-> "Fallback scheduling: next business day at 10 AM"]

(* LLMClient.find_optimal_meeting_time *)
find_optimal_meeting_time(meeting_request, llm_response, now_) ==
    IF llm_response # None /\ fromisoformat(llm_response.start_time) > now_
    THEN llm_response
    ELSE _fallback_scheduling(meeting_request, now_)

-----------------------------------------------------------------------------
(* SmartScheduler: the two policies.  Each returns the scheduling result,  *)
(* the calendar_data it leaves behind (it is mutated in place) and the     *)
(* calendar manager's state.                                               *)

(* SmartScheduler._validate_meeting_time *)
_validate_meeting_time(proposed_time, calendar_data) ==
    \A i \in 1..Len(calendar_data) :
        \A k \in 1..Len(calendar_data[i].events) :
            ~_times_overlap(proposed_time.start_time, proposed_time.end_time,
                            calendar_data[i].events[k].StartTime,
                            calendar_data[i].events[k].EndTime)

(* SmartScheduler._algorithmic_scheduling *)
_algorithmic_scheduling(params, calendar_data, mgr, now_, provider, answers) ==
    LET duration == params.duration_minutes
        attendees == emails(calendar_data)
        Default(start_time) ==
            [start_time |-> strftime(start_time),
             end_time   |-> strftime(start_time + duration),
             reasoning  |-> "No common free time found, suggesting default slot"]
        Pick(common) ==
            IF common.slots # <<>>
            THEN [result |-> [start_time |-> common.slots[1][1],
                              end_time   |-> common.slots[1][2],
                              reasoning  |-> "First available common slot"],
                  calendar_data |-> calendar_data,
                  mgr |-> common.mgr]
            ELSE [result |-> Default(replace(NextWeekday(now_), 10, 0)),
                  calendar_data |-> calendar_data,
                  mgr |-> common.mgr]
        Search(window) ==
            Pick(find_common_free_slots(attendees, window[1], window[2], duration,
                                        mgr, now_, provider, answers))
    IN  Search(_parse_time_constraints(params.time_constraints, now_))

(* SmartScheduler._normal_priority_scheduling *)
_normal_priority_scheduling(params, calendar_data, mgr, now_, provider, llm_response, answers) ==
    LET Validate(ai_result) ==
            IF _validate_meeting_time(ai_result, calendar_data)
            THEN [result |-> ai_result, calendar_data |-> calendar_data, mgr |-> mgr]
            ELSE _algorithmic_scheduling(params, calendar_data, mgr, now_, provider,
                                         answers)
    IN  IF llm_response = Raise
        THEN _algorithmic_scheduling(params, calendar_data, mgr, now_, provider, answers)
        ELSE Validate(find_optimal_meeting_time(params, llm_response, now_))

(* A high-priority policy that moves the new meeting to the first free     *)
(* slot of the day when the preferred slot is taken.                       *)
_priority_based_scheduling_first_free(params, calendar_data, mgr, now_) ==
    LET duration == params.duration_minutes
        preferred_slot == _find_preferred_time_slot(params.time_constraints, duration, now_)
        conflicts == _find_conflicts(preferred_slot[1], preferred_slot[2], calendar_data)
        free == _find_available_slots_on_date(preferred_slot[1].date, duration,
                                              calendar_data, None)
        slot == IF conflicts # <<>> /\ free # <<>> THEN free[1] ELSE preferred_slot
    IN  [result |-> [start_time |-> slot[1],
                     end_time   |-> slot[2],
                     reasoning  |-> "High priority meeting scheduled at preferred time with no conflicts"],
         calendar_data |-> calendar_data,
         mgr |-> mgr]

(* SmartScheduler._priority_based_scheduling; _find_preferred_time_slot    *)
(* always returns a slot, so the fall-back to the normal policy is dead.   *)
_priority_based_scheduling(params, calendar_data, mgr, now_) ==
    LET duration == params.duration_minutes
        Reschedule(preferred_start, preferred_end, rescheduled_meetings) ==
            [result |-> [start_time |-> preferred_start,
                         end_time   |-> preferred_end,
                         reasoning  |-> "High priority meeting scheduled - rescheduled conflicting meetings",
                         rescheduled_count |-> Len(rescheduled_meetings)],
             calendar_data |-> _apply_rescheduling(calendar_data, rescheduled_meetings),
             mgr |-> mgr]
        Resolve(preferred_start, preferred_end, conflicts) ==
            IF conflicts = <<>>
            THEN [result |-> [start_time |-> preferred_start,
                              end_time   |-> preferred_end,
                              reasoning  |-> "High priority meeting scheduled at preferred time with no conflicts"],
                  calendar_data |-> calendar_data,
                  mgr |-> mgr]
            ELSE Reschedule(preferred_start, preferred_end,
                            RelocationPlan(conflicts, calendar_data))
        Place(preferred_slot) ==
            Resolve(preferred_slot[1], preferred_slot[2],
                    _find_conflicts(preferred_slot[1], preferred_slot[2], calendar_data))
    IN  Place(_find_preferred_time_slot(params.time_constraints, duration, now_))

(* SmartScheduler._find_optimal_meeting_time *)
_find_optimal_meeting_time(params, calendar_data, mgr, now_, provider, llm_response, answers) ==
    IF params.priority = "high"
    THEN _priority_based_scheduling(params, calendar_data, mgr, now_)
    ELSE _normal_priority_scheduling(params, calendar_data, mgr, now_, provider,
                                     llm_response, answers)

(* str(n) *)
str(n) == <<"str", n>>

(* SmartScheduler._format_output: the output record, and calendar_data     *)
(* after the new event was appended to each participant's list (the        *)
(* output's Attendees hold those very lists).                              *)
_format_output(request, calendar_data, optimal_time, params) ==
    LET new_event == [StartTime |-> optimal_time.start_time,
                      EndTime   |-> optimal_time.end_time,
                      Summary   |-> request.Subject]
        after == [i \in 1..Len(calendar_data) |->
                     [calendar_data[i] EXCEPT !.events = Append(@, new_event)]]
    IN  [output_data |->
            Update(request,
                   [Attendees     |-> after,
                    EventStart    |-> optimal_time.start_time,
                    EventEnd      |-> optimal_time.end_time,
                    Duration_mins |-> str(params.duration_minutes),
                    MetaData      |-> [scheduling_method |-> optimal_time.reasoning]]),
         calendar_data |-> after]

-----------------------------------------------------------------------------
(* SchedulingValidator.  A score is kept in tenths of a point, so that     *)
(* 12.5 points per check is the integer 125.                               *)

max_iterations == 5

(* A copy that is the object itself *)
deepcopy_alias(ref) == ref

(* copy.deepcopy: the copy is a new object; `ref` names the object copied, *)
(* the result names the object the caller works on.                        *)
deepcopy(ref) == "working"

(* SchedulingValidator._create_calendar_snapshot *)
_create_calendar_snapshot(calendar_data) ==
    [i \in 1..Len(calendar_data) |->
        [email        |-> calendar_data[i].email,
         total_events |-> Len(calendar_data[i].events),
         events       |-> [k \in 1..Len(calendar_data[i].events) |->
                              [summary |-> calendar_data[i].events[k].Summary,
                               start   |-> calendar_data[i].events[k].StartTime,
                               end     |-> calendar_data[i].events[k].EndTime]]]]

(* SchedulingValidator._extract_calendar_from_output *)
_extract_calendar_from_output(output_data) ==
    [i \in 1..Len(output_data.Attendees) |->
        [email  |-> output_data.Attendees[i].email,
         events |-> output_data.Attendees[i].events]]

(* SchedulingValidator._events_overlap *)
_events_overlap(event1, event2) ==
    LET start1 == fromisoformat(event1.start)
        end1   == fromisoformat(event1.end)
        start2 == fromisoformat(event2.start)
        end2   == fromisoformat(event2.end)
    IN  start1 < end2 /\ end1 > start2

(* SchedulingValidator._validate_new_meeting_added *)
_validate_new_meeting_added(before_, after_snapshot) ==
    \A i \in 1..Len(before_) :
        \E j \in 1..Len(after_snapshot) :
            /\ after_snapshot[j].email = before_[i].email
            /\ after_snapshot[j].total_events > before_[i].total_events

(* SchedulingValidator._validate_time_constraints *)
_validate_time_constraints(scheduling_result, params) ==
    contains(params.time_constraints, "thursday")
        => weekday(fromisoformat(scheduling_result.start_time)) = 3

(* SchedulingValidator._validate_duration_accuracy *)
_validate_duration_accuracy(scheduling_result, params) ==
    LET expected_duration == params.duration_minutes
        actual_duration == fromisoformat(scheduling_result.end_time)
                           - fromisoformat(scheduling_result.start_time)
        diff == actual_duration - expected_duration
    IN  ~((IF diff >= 0 THEN diff ELSE 0 - diff) > 5)

(* SchedulingValidator._validate_no_invalid_conflicts *)
_validate_no_invalid_conflicts(after_snapshot) ==
    \A a \in 1..Len(after_snapshot) :
        \A i, j \in 1..Len(after_snapshot[a].events) :
            i < j => ~_events_overlap(after_snapshot[a].events[i],
                                      after_snapshot[a].events[j])

(* SchedulingValidator._validate_output_format *)
_validate_output_format(output_data) ==
    /\ {"Request_id", "EventStart", "EventEnd", "Duration_mins", "Attendees",
        "MetaData"} \subseteq DOMAIN output_data
    /\ \A i \in 1..Len(output_data.Attendees) :
           {"email", "events"} \subseteq DOMAIN output_data.Attendees[i]

(* SchedulingValidator._validate_future_scheduling *)
_validate_future_scheduling(scheduling_result, now_) ==
    ~(fromisoformat(scheduling_result.start_time) <= now_)

(* SchedulingValidator._validate_attendee_consistency *)
_validate_attendee_consistency(output_data, params) ==
    params.participants = {output_data.Attendees[i].email :
                              i \in 1..Len(output_data.Attendees)}

(* SchedulingValidator._validate_priority_handling: passes on every path *)
_validate_priority_handling(params, scheduling_result) == TRUE

CheckNames == <<"new_meeting_added", "time_constraints", "duration_accuracy",
                "no_conflicts", "output_format", "future_scheduling",
                "attendee_consistency", "priority_handling">>

(* Python's `word in name` on the names of the checks *)
NameHas(name, word) ==
    CASE word = "time" -> name = "time_constraints"
      [] word = "format" -> name = "output_format"
      [] word = "time_constraints" -> name = "time_constraints"
      [] word = "duration" -> name = "duration_accuracy"
      [] word = "conflict" -> name = "no_conflicts"
      [] OTHER -> FALSE

(* SchedulingValidator._comprehensive_validation: the checks, and the      *)
(* names of the failed ones in the order of the checks.                    *)
_comprehensive_validation(before_, after_snapshot, params, scheduling_result, output_data, now_) ==
    LET checks ==
            [name \in Range(CheckNames) |->
                CASE name = "new_meeting_added" ->
                        _validate_new_meeting_added(before_, after_snapshot)
                  [] name = "time_constraints" ->
                        _validate_time_constraints(scheduling_result, params)
                  [] name = "duration_accuracy" ->
                        _validate_duration_accuracy(scheduling_result, params)
                  [] name = "no_conflicts" ->
                        _validate_no_invalid_conflicts(after_snapshot)
                  [] name = "output_format" ->
                        _validate_output_format(output_data)
                  [] name = "future_scheduling" ->
                        _validate_future_scheduling(scheduling_result, now_)
                  [] name = "attendee_consistency" ->
                        _validate_attendee_consistency(output_data, params)
                  [] OTHER ->
                        _validate_priority_handling(params, scheduling_result)]
        Failed(name) == ~checks[name]
    IN  [checks |-> checks, errors |-> SelectSeq(CheckNames, Failed)]

RECURSIVE SumSeq(_)
SumSeq(seq) == IF seq = <<>> THEN 0 ELSE Head(seq) + SumSeq(Tail(seq))

(* A score that drops to zero with the first failed check *)
_calculate_correctness_score_all_or_nothing(validation_results) ==
    IF validation_results.errors = <<>> THEN 1000 ELSE 0

(* A score without the floor at zero *)
_calculate_correctness_score_without_floor(validation_results) ==
    LET total_checks == Cardinality(DOMAIN validation_results.checks)
        passed_checks == Cardinality({n \in DOMAIN validation_results.checks :
                                         validation_results.checks[n]})
        errors == validation_results.errors
    IN  (passed_checks * 1000) \div total_checks
            - SumSeq([i \in 1..Len(errors) |->
                         IF NameHas(errors[i], "time") \/ NameHas(errors[i], "format")
                         THEN 100 ELSE 50])

(* A score that starts from 100 and only subtracts the penalties *)
_calculate_correctness_score_of_penalties(validation_results) ==
    LET errors == validation_results.errors
    IN  Max(0, 1000 - SumSeq([i \in 1..Len(errors) |->
                        IF NameHas(errors[i], "time") \/ NameHas(errors[i], "format")
                        THEN 100 ELSE 50]))

(* SchedulingValidator._calculate_correctness_score, in tenths of a point *)
_calculate_correctness_score(validation_results) ==
    LET total_checks == Cardinality(DOMAIN validation_results.checks)
        passed_checks == Cardinality({n \in DOMAIN validation_results.checks :
                                         validation_results.checks[n]})
        base_score == (passed_checks * 1000) \div total_checks
        errors == validation_results.errors
        penalties == SumSeq([i \in 1..Len(errors) |->
                        IF NameHas(errors[i], "time") \/ NameHas(errors[i], "format")
                        THEN 100 ELSE 50])
    IN  IF total_checks = 0 THEN 0 ELSE Max(0, base_score - penalties)

(* The test of line 79 with >= for > *)
is_new_best_or_equal(score, best_score_) == score >= best_score_

(* The test of line 79 that remembers an attempt as the best so far *)
is_new_best(score, best_score_) == score > best_score_

(* SchedulingValidator._generate_corrections: the actions, in order *)
_generate_corrections(validation_results) ==
    LET errors == validation_results.errors
    IN  Flatten([i \in 1..Len(errors) |->
            IF NameHas(errors[i], "time_constraints") THEN <<"reparse_constraints">>
            ELSE IF NameHas(errors[i], "duration") THEN <<"recalculate_duration">>
            ELSE IF NameHas(errors[i], "conflict") THEN <<"find_alternative_slot">>
            ELSE <<>>])

(* SchedulingValidator._apply_corrections *)
RECURSIVE _apply_corrections(_, _)
_apply_corrections(params, corrections) ==
    IF corrections = <<>> THEN params
    ELSE LET action == Head(corrections)
             corrected ==
                 IF action = "reparse_constraints" THEN
                     IF params.time_constraints = "flexible"
                     THEN [params EXCEPT !.time_constraints = "thursday"]
                     ELSE params
                 ELSE IF action = "recalculate_duration" THEN
                     IF params.duration_minutes < 15
                     THEN [params EXCEPT !.duration_minutes = 30]
                     ELSE IF params.duration_minutes > 120
                     THEN [params EXCEPT !.duration_minutes = 60]
                     ELSE params
                 ELSE IF action = "find_alternative_slot" THEN
                     [params EXCEPT !.scheduling_approach = "algorithmic"]
                 ELSE params
         IN  _apply_corrections(corrected, Tail(corrections))

(* _finalize_result counting the attempts from zero *)
_finalize_result_from_zero(output_data, validation_results, iteration_) ==
    [output_data EXCEPT !.MetaData =
        [scheduling_method     |-> output_data.MetaData.scheduling_method,
         validation_applied    |-> TRUE,
         validation_score      |-> 1000,
         validation_iterations |-> iteration_ - 1,
         all_checks_passed     |-> TRUE]]

(* SchedulingValidator._finalize_result *)
_finalize_result(output_data, validation_results, iteration_) ==
    [output_data EXCEPT !.MetaData =
        [scheduling_method     |-> output_data.MetaData.scheduling_method,
         validation_applied    |-> TRUE,
         validation_score      |-> _calculate_correctness_score(validation_results),
         validation_iterations |-> iteration_,
         all_checks_passed     |-> \A n \in DOMAIN validation_results.checks :
                                       validation_results.checks[n]]]

(* SchedulingValidator._create_emergency_fallback *)
_create_emergency_fallback(request, now_) ==
    LET start_time == replace(NextWeekday(now_), 10, 0)
        end_time == start_time + 30
    IN  Update(request,
               [EventStart    |-> strftime(start_time),
                EventEnd      |-> strftime(end_time),
                Duration_mins |-> str(30),
                Attendees     |-> <<>>,
                MetaData      |-> [emergency_fallback |-> TRUE,
                                   validation_failed  |-> TRUE]])

-----------------------------------------------------------------------------
(* The request pipeline: SmartScheduler.process_meeting_request fetches    *)
(* the calendars, then SchedulingValidator.validate_and_optimize_scheduling *)
(* runs its attempts.  The clock advances between the steps.               *)

MaxTicks == 1

TickMinutes == CacheMinutes + 1

Participants == {"p1", "p2"}

Orders == {<<"p1", "p2">>, <<"p2", "p1">>}

Answers == [Participants -> {"ok", "fail"}]

At(date, hh, mm) == [date |-> date, hh |-> hh, mm |-> mm]

Ev(date, h1, m1, h2, m2, summary) ==
    [start_time |-> At(date, h1, m1), end_time |-> At(date, h2, m2), summary |-> summary]

(* The provider calendars of the model, on the day `d`: nobody busy; the   *)
(* second participant busy 10:00-11:30; both in an all-day workshop; two   *)
(* back-to-back events around 09:00; one event each around 09:00; a short  *)
(* event followed by a leave of eight days.                                *)
ProviderCalendar(name, d) ==
    [p \in Participants |->
        CASE name = "free" -> <<>>
          [] name = "partial" ->
                IF p = "p2" THEN <<Ev(d, 10, 0, 11, 30, "Review")>> ELSE <<>>
          [] name = "workshop" -> <<Ev(d, 9, 0, 18, 0, "Workshop")>>
          [] name = "chain" ->
                IF p = "p1"
                THEN <<Ev(d, 8, 30, 9, 15, "Standup"), Ev(d, 9, 15, 10, 0, "Sync")>>
                ELSE <<>>
          [] name = "cross" ->
                IF p = "p1" THEN <<Ev(d, 8, 30, 9, 15, "Standup")>>
                ELSE <<Ev(d, 9, 15, 9, 45, "Call")>>
          [] OTHER ->
                IF p = "p1"
                THEN <<Ev(d, 8, 30, 9, 15, "Standup"),
                       [start_time |-> At(d, 9, 15), end_time |-> At(d + 8, 18, 0),
                        summary |-> "Leave"]>>
                ELSE <<>>]

Wednesday10 == days(2) + 10 * 60
Thursday10 == days(3) + 10 * 60

(* The request in the hackathon's input format: the first participant     *)
(* invites the second.                                                     *)
HackathonRequest ==
    [Request_id   |-> "req-1",
     Datetime     |-> "09-07-2025T12:34:55",
     Location     |-> "IISc Bangalore",
     From         |-> "p1",
     Attendees    |-> <<[email |-> "p2"]>>,
     Subject      |-> "New meeting",
     EmailContent |-> "Let us meet for 30 minutes."]

(* The requests of the model: current time, priority, constraint text,     *)
(* duration, whether the parsed participants are the request's attendees,  *)
(* and the provider calendar.                                              *)
Scenarios ==
    { <<Wednesday10, "normal", "flexible", 30, TRUE, "free">>,
      <<Wednesday10, "normal", "flexible", 30, TRUE, "partial">>,
      <<Wednesday10, "normal", "flexible", 30, TRUE, "workshop">>,
      <<Wednesday10, "normal", "flexible", 30, FALSE, "free">>,
      <<Wednesday10, "normal", "thursday", 150, TRUE, "free">>,
      <<Wednesday10, "normal", "thursday", 150, TRUE, "workshop">>,
      <<Wednesday10, "normal", "thursday", 150, TRUE, "partial">>,
      <<Thursday10, "normal", "thursday", 30, TRUE, "free">>,
      <<Thursday10, "normal", "thursday", 30, TRUE, "partial">>,
      <<Wednesday10, "high", "thursday", 30, TRUE, "free">>,
      <<Wednesday10, "high", "thursday", 30, TRUE, "partial">>,
      <<Wednesday10, "high", "thursday", 30, TRUE, "workshop">>,
      <<Wednesday10, "high", "thursday", 30, TRUE, "chain">>,
      <<Wednesday10, "high", "thursday", 30, TRUE, "cross">>,
      <<Wednesday10, "high", "flexible", 150, TRUE, "chain">>,
      <<Wednesday10, "high", "thursday", 30, TRUE, "packed">>,
      <<Wednesday10, "high", "tomorrow", 30, FALSE, "cross">>,
      <<Thursday10, "high", "thursday", 30, TRUE, "workshop">> }

ParamsOf(scenario) ==
    [participants        |-> IF scenario[5] THEN Participants ELSE {"p2"},
     duration_minutes    |-> scenario[4],
     time_constraints    |-> scenario[3],
     priority            |-> scenario[2],
     scheduling_approach |-> "default"]

(* The day the request aims at: the day of its preferred slot for a high  *)
(* priority, the first day of its window otherwise.                        *)
TargetDay(params, now_) ==
    IF params.priority = "high"
    THEN _find_preferred_time_slot(params.time_constraints, params.duration_minutes,
                                   now_)[1].date
    ELSE _parse_time_constraints(params.time_constraints, now_)[1].date

(* What the advisor call may do on one scheduling prompt: raise, or get    *)
(* from the language model a slot of the requested length at 10:30 of the  *)
(* target day, a slot 15 minutes too long at 14:00, or a slot an hour ago. *)
LLMResponses(params, now_) ==
    LET d == TargetDay(params, now_)
        Slot(start, minutes) ==
            [start_time |-> strftime(start),
             end_time   |-> strftime(start + minutes),
             reasoning  |-> "LLM"]
    IN  { Raise,
          Slot(days(d) + 10 * 60 + 30, params.duration_minutes),
          Slot(days(d) + 14 * 60, params.duration_minutes + 15),
          Slot(now_ - 60, params.duration_minutes) }

Init ==
    /\ \E scenario \in Scenarios :
          /\ now = scenario[1]
          /\ meeting_params = ParamsOf(scenario)
          /\ providerEvents = ProviderCalendar(
                  scenario[6], TargetDay(ParamsOf(scenario), scenario[1]))
    /\ request_data = HackathonRequest
    /\ _calendar_cache = [k \in {} |-> <<>>]
    /\ _cache_expiry = [k \in {} |-> 0]
    /\ heap = [original |-> <<>>, working |-> <<>>]
    /\ pc = "fetch"
    /\ iteration = 0
    /\ best_result = None
    /\ best_score = 0
    /\ returned = None
    /\ before_snapshot = <<>>
    /\ attempts = <<>>
    /\ ticks = 0
    /\ call = None

(* SmartScheduler._get_calendar_data_for_attendees, then the entry of      *)
(* validate_and_optimize_scheduling (before_snapshot and the loop          *)
(* variables).                                                             *)
GetCalendarData ==
    /\ pc = "fetch"
    /\ \E order \in Orders, answers \in Answers :
       \E window \in {_parse_time_constraints(meeting_params.time_constraints, now)} :
       \E got \in {get_multiple_users_events(
                       order, window[1], window[2],
                       [cache |-> _calendar_cache, expiry |-> _cache_expiry],
                       now, providerEvents, answers)} :
       \E calendar_data \in
               {[i \in 1..Len(got.results) |->
                    [email  |-> got.results[i].email,
                     events |-> [k \in 1..Len(got.results[i].events) |->
                                    to_dict(got.results[i].events[k])]]]} :
          /\ heap' = [heap EXCEPT !.original = calendar_data]
          /\ before_snapshot' = _create_calendar_snapshot(calendar_data)
          /\ _calendar_cache' = got.mgr.cache
          /\ _cache_expiry' = got.mgr.expiry
    /\ pc' = "loop"
    /\ UNCHANGED <<now, request_data, meeting_params, providerEvents, iteration,
                   best_result, best_score, returned, attempts, ticks, call>>

(* Time passes between two steps of the request *)
Tick ==
    /\ pc = "loop"
    /\ ticks < MaxTicks
    /\ ticks' = ticks + 1
    /\ now' = now + TickMinutes
    /\ UNCHANGED <<pc, request_data, meeting_params, providerEvents, _calendar_cache,
                   _cache_expiry, heap, iteration, best_result, best_score, returned,
                   before_snapshot, attempts, call>>

(* The return after the loop without the emergency fallback *)
AfterLoop_without_fallback(best) == best

(* The return after the loop, lines 97-103 *)
AfterLoop(best) ==
    IF best # None THEN best ELSE _create_emergency_fallback(request_data, now)

(* One iteration of the loop in which _find_optimal_meeting_time raises:   *)
(* the except clause continues with the next iteration.                    *)
AttemptRaises ==
    /\ pc = "loop"
    /\ iteration < max_iterations
    /\ iteration' = iteration + 1
    /\ LET w == deepcopy("original")
       IN  heap' = [heap EXCEPT ![w] = heap["original"]]
    /\ IF iteration + 1 < max_iterations
       THEN pc' = "loop" /\ returned' = returned
       ELSE pc' = "done" /\ returned' = AfterLoop(best_result)
    /\ UNCHANGED <<now, request_data, meeting_params, providerEvents, _calendar_cache,
                   _cache_expiry, best_result, best_score, before_snapshot, attempts,
                   ticks, call>>

(* The part of an iteration up to the score: lines 46-71 *)
RunAttempt(params, calendar_in, mgr, now_, provider, llm_response, answers, request, before_) ==
    LET Scored(sched, formatted, validation_results) ==
            [scheduling_result  |-> sched.result,
             mgr                |-> sched.mgr,
             output_data        |-> formatted.output_data,
             calendar_out       |-> formatted.calendar_data,
             validation_results |-> validation_results,
             score              |-> _calculate_correctness_score(validation_results)]
        Validated(sched, formatted, after_snapshot) ==
            Scored(sched, formatted,
                   _comprehensive_validation(before_, after_snapshot, params, sched.result,
                                             formatted.output_data, now_))
        Formatted(sched, formatted) ==
            Validated(sched, formatted,
                      _create_calendar_snapshot(
                          _extract_calendar_from_output(formatted.output_data)))
        Scheduled(sched) ==
            Formatted(sched,
                      _format_output(request, sched.calendar_data, sched.result, params))
    IN  Scheduled(_find_optimal_meeting_time(params, calendar_in, mgr, now_, provider,
                                             llm_response, answers))

(* One iteration of the loop that schedules, formats and scores *)
AttemptScores ==
    /\ pc = "loop"
    /\ iteration < max_iterations
    /\ iteration' = iteration + 1
    /\ \E llm_response \in LLMResponses(meeting_params, now), answers \in Answers :
       \E w \in {deepcopy("original")} :
       \E run \in {RunAttempt(meeting_params, heap["original"],
                              [cache |-> _calendar_cache, expiry |-> _cache_expiry],
                              now, providerEvents, llm_response, answers, request_data,
                              before_snapshot)} :
          LET score == run.score
              better == is_new_best(score, best_score)
              best == IF better THEN run.output_data ELSE best_result
              correction_suggestions == _generate_corrections(run.validation_results)
              stop == correction_suggestions = <<>> \/ ~(iteration + 1 < max_iterations)
          IN  /\ heap' = [heap EXCEPT ![w] = run.calendar_out]
              /\ _calendar_cache' = run.mgr.cache
              /\ _cache_expiry' = run.mgr.expiry
              /\ attempts' = Append(attempts,
                     [params |-> meeting_params,
                      result |-> run.scheduling_result,
                      output |-> run.output_data,
                      checks |-> run.validation_results.checks,
                      score  |-> score])
              /\ IF score >= 950
                 THEN /\ returned' = _finalize_result(run.output_data,
                                                      run.validation_results, iteration + 1)
                      /\ pc' = "done"
                      /\ UNCHANGED <<best_result, best_score, meeting_params>>
                 ELSE /\ best_result' = best
                      /\ best_score' = IF better THEN score ELSE best_score
                      /\ meeting_params' =
                             IF correction_suggestions # <<>>
                             THEN _apply_corrections(meeting_params, correction_suggestions)
                             ELSE meeting_params
                      /\ IF stop
                         THEN pc' = "done" /\ returned' = AfterLoop(best)
                         ELSE pc' = "loop" /\ returned' = returned
    /\ UNCHANGED <<now, request_data, providerEvents, before_snapshot, ticks, call>>

Next == GetCalendarData \/ Tick \/ AttemptRaises \/ AttemptScores

Spec == Init /\ [][Next]_vars

-----------------------------------------------------------------------------
(* The entry of the request and the responses built when it fails.         *)

(* dict.get(key, default) *)
Get(dict, key, default) == IF key \in DOMAIN dict THEN dict[key] ELSE default

(* SmartScheduler._validate_input *)
_validate_input(request) ==
    \A field \in {"Request_id", "From", "EmailContent"} : field \in DOMAIN request

(* [organizer] + attendee_emails, as a set *)
AllAttendees(request) ==
    LET attendees == Get(request, "Attendees", <<>>)
    IN  {Get(request, "From", "")} \cup {attendees[i].email : i \in 1..Len(attendees)}

(* list(set(all_attendees)): the set in one of its orders *)
ListsOfSet(S) == {l \in [1..Cardinality(S) -> S] : {l[i] : i \in 1..Len(l)} = S}

(* The attendee entries of a fallback response: each attendee with the     *)
(* default meeting as only event                                           *)
FallbackAttendees(request, all_attendees, start_str, end_str) ==
    [i \in 1..Len(all_attendees) |->
        [email  |-> all_attendees[i],
         events |-> <<[StartTime |-> start_str,
                       EndTime   |-> end_str,
                       Summary   |-> Get(request, "Subject", "Meeting")]>>]]

(* SmartScheduler._create_fallback_response; all_attendees is the list     *)
(* list(set(...)) gave                                                     *)
_create_fallback_response(request, now_, all_attendees) ==
    LET start_time == replace(NextWeekday(now_), 10, 0)
        end_time == start_time + 30
    IN  Update(request,
               [Attendees     |-> FallbackAttendees(request, all_attendees,
                                                    strftime(start_time),
                                                    strftime(end_time)),
                EventStart    |-> strftime(start_time),
                EventEnd      |-> strftime(end_time),
                Duration_mins |-> str(30),
                MetaData      |-> [scheduling_method |-> "fallback",
                                   error |-> "Processing failed, using default scheduling"]])

(* main.py, _create_emergency_fallback *)
main_create_emergency_fallback(request, now_, all_attendees) ==
    LET start_time == replace(NextWeekday(now_), 10, 0)
        end_time == start_time + 30
    IN  Update(request,
               [Attendees     |-> FallbackAttendees(request, all_attendees,
                                                    strftime(start_time),
                                                    strftime(end_time)),
                EventStart    |-> strftime(start_time),
                EventEnd      |-> strftime(end_time),
                Duration_mins |-> str(30),
                MetaData      |-> [emergency_fallback |-> TRUE]])

(* SmartCalendarAPI._create_emergency_fallback (flask_server.py) *)
api_create_emergency_fallback(request, now_) ==
    LET start_time == replace(now_ + days(1), 10, 0)
        end_time == start_time + 30
    IN  Update(request,
               [EventStart    |-> strftime(start_time),
                EventEnd      |-> strftime(end_time),
                Duration_mins |-> str(30),
                MetaData      |-> [emergency_fallback |-> TRUE]])

(* The places where a response is built after an exception, and the        *)
(* response each builds                                                    *)
FallbackPlaces == {"scheduler", "validator", "main", "api"}

FallbackResponse(place, request, now_, all_attendees) ==
    CASE place = "scheduler" -> _create_fallback_response(request, now_, all_attendees)
      [] place = "validator" -> _create_emergency_fallback(request, now_)
      [] place = "main" -> main_create_emergency_fallback(request, now_, all_attendees)
      [] OTHER -> api_create_emergency_fallback(request, now_)

(* SmartScheduler.process_meeting_request up to the engine: a request that *)
(* fails _validate_input raises ValueError inside the try block, and the   *)
(* except clause answers with _create_fallback_response.  Entered stands   *)
(* for a valid request going on into the engine.                           *)
Entered == [entered |-> TRUE]

process_meeting_request(request, now_, all_attendees) ==
    IF ~_validate_input(request)
    THEN _create_fallback_response(request, now_, all_attendees)
    ELSE Entered

(* Requests: the hackathon request, with the organizer also listed as      *)
(* attendee or not, and with any of five fields left out.                  *)
Requests ==
    LET variants == {HackathonRequest,
                     [HackathonRequest EXCEPT
                         !.Attendees = <<[email |-> "p2"], [email |-> "p1"]>>]}
        droppable == {"Request_id", "From", "EmailContent", "Subject", "Attendees"}
    IN  {[k \in DOMAIN r \ dropped |-> r[k]] : r \in variants, dropped \in SUBSET droppable}

-----------------------------------------------------------------------------
(* Direct calls.  A second specification applies single functions of the   *)
(* engine to arguments drawn from small sets, one call per step, at every  *)
(* weekday and at hours before, inside and after business hours.  `call`   *)
(* holds the call; the request variables stay at rest.                     *)

ClockHours == {8, 17, 18, 21}

Clocks == {days(d) + h * 60 + 20 : d \in 0..6, h \in ClockHours}

Durations == {30, 150}

(* Busy events around a day d, from which the calendars passed to          *)
(* find_free_slots are drawn, in any order and with repetitions.           *)
MaxBusy == 2

BusyPool(d) ==
    { Ev(d, 8, 30, 9, 15, "Standup"),
      Ev(d, 10, 0, 11, 30, "Review"),
      Ev(d, 16, 0, 17, 45, "Retro"),
      Ev(d, 18, 30, 20, 0, "Dinner"),
      [start_time |-> At(d, 17, 0), end_time |-> At(d + 1, 10, 0), summary |-> "Trip"] }

RECURSIVE Lists(_, _)
Lists(S, n) ==
    IF n = 0 THEN {<<>>}
    ELSE Lists(S, n - 1) \cup {Append(l, x) : l \in Lists(S, n - 1), x \in S}

(* Well-formed intervals (start < end) on the days d and d + 1 *)
Intervals(d) ==
    LET points == {At(d, 9, 0), At(d, 9, 30), At(d, 10, 0), At(d, 17, 30),
                   At(d + 1, 9, 0), At(d + 1, 9, 30)}
    IN  {[start |-> p[1], end |-> p[2]] :
            p \in {q \in points \X points : StrLess(q[1], q[2])}}

AtRest ==
    /\ pc = "call"
    /\ request_data = None
    /\ meeting_params = None
    /\ providerEvents = None
    /\ _calendar_cache = [k \in {} |-> <<>>]
    /\ _cache_expiry = [k \in {} |-> 0]
    /\ heap = [original |-> <<>>, working |-> <<>>]
    /\ iteration = 0
    /\ best_result = None
    /\ best_score = 0
    /\ returned = None
    /\ before_snapshot = <<>>
    /\ attempts = <<>>
    /\ ticks = 0

CallInit == AtRest /\ now \in Clocks /\ call = None

Called(fn, args, out) ==
    /\ pc' = "done"
    /\ call' = [fn |-> fn, args |-> args, out |-> out]
    /\ UNCHANGED <<now, request_data, meeting_params, providerEvents,
                   _calendar_cache, _cache_expiry, heap, iteration, best_result,
                   best_score, returned, before_snapshot, attempts, ticks>>

CallParseTimeConstraints ==
    /\ pc = "call"
    /\ \E text \in ConstraintTexts :
           Called("_parse_time_constraints", <<text>>, _parse_time_constraints(text, now))

CallFindPreferredTimeSlot ==
    /\ pc = "call"
    /\ \E text \in ConstraintTexts, duration \in Durations :
           Called("_find_preferred_time_slot", <<text, duration>>,
                  _find_preferred_time_slot(text, duration, now))

CallFindFreeSlots ==
    /\ pc = "call"
    /\ \E text \in {"flexible", "tomorrow", "today"}, duration \in Durations :
       \E window \in {_parse_time_constraints(text, now)} :
       \E events \in Lists(BusyPool(window[1].date), MaxBusy) :
           Called("find_free_slots", <<events, window[1], window[2], duration>>,
                  find_free_slots(events, window[1], window[2], duration))

CallFindCommonFreeSlots ==
    /\ pc = "call"
    /\ \E name \in {"free", "partial", "workshop", "chain", "cross", "packed"} :
       \E duration \in Durations, answers \in Answers, order \in Orders :
       \E window \in {_parse_time_constraints("tomorrow", now)} :
       \E provider \in {ProviderCalendar(name, window[1].date)} :
           Called("find_common_free_slots",
                  <<order, window[1], window[2], duration, provider, answers>>,
                  find_common_free_slots(
                      order, window[1], window[2], duration,
                      [cache |-> _calendar_cache, expiry |-> _cache_expiry],
                      now, provider, answers).slots)

CallOverlap ==
    /\ pc = "call"
    /\ \E a \in Intervals(now \div MinutesPerDay) :
       \E b \in Intervals(now \div MinutesPerDay) :
           Called("overlap", <<a, b>>,
                  [_times_overlap  |-> _times_overlap(a.start, a.end, b.start, b.end),
                   _events_overlap |-> _events_overlap(a, b),
                   overlaps_with   |-> overlaps_with(
                                           [start_time |-> a.start, end_time |-> a.end],
                                           b.start, b.end)])

CallCalculateScore ==
    /\ pc = "call"
    /\ \E checks \in [Range(CheckNames) -> BOOLEAN] :
       \E validation_results \in
               {[checks |-> checks,
                 errors |-> LET Failed(name) == ~checks[name]
                            IN  SelectSeq(CheckNames, Failed)]} :
           Called("_calculate_correctness_score", <<validation_results>>,
                  _calculate_correctness_score(validation_results))

(* _get_calendar_data_for_attendees followed by                            *)
(* _normal_priority_scheduling on the data it fetched, within the cache's  *)
(* lifetime: a participant whose fetch failed is fetched again by the      *)
(* search, and the provider fails again.                                   *)
CallNormalPriorityScheduling ==
    /\ pc = "call"
    /\ \E name \in {"free", "partial", "workshop", "chain", "cross", "packed"} :
       \E text \in {"flexible", "tomorrow", "thursday"}, duration \in Durations :
       \E answers \in Answers :
       \E params \in {[participants        |-> Participants,
                       duration_minutes    |-> duration,
                       time_constraints    |-> text,
                       priority            |-> "normal",
                       scheduling_approach |-> "default"]} :
       \E window \in {_parse_time_constraints(text, now)} :
       \E provider \in {ProviderCalendar(name, window[1].date)} :
       \E got \in {get_multiple_users_events(
                       <<"p1", "p2">>, window[1], window[2],
                       [cache |-> _calendar_cache, expiry |-> _cache_expiry],
                       now, provider, answers)} :
       \E calendar_data \in
               {[i \in 1..Len(got.results) |->
                    [email  |-> got.results[i].email,
                     events |-> [k \in 1..Len(got.results[i].events) |->
                                    to_dict(got.results[i].events[k])]]]} :
       \E llm_response \in LLMResponses(params, now) :
           Called("_normal_priority_scheduling",
                  [params |-> params, calendar_data |-> calendar_data, mgr |-> got.mgr,
                   provider |-> provider, llm_response |-> llm_response,
                   answers |-> answers],
                  _normal_priority_scheduling(params, calendar_data, got.mgr, now,
                                              provider, llm_response, answers).result)

(* LLMClient._enhanced_fallback_parsing on an e-mail in which the pattern  *)
(* '<day> at <h>:<mm> am|pm' matched: the groups of the match become        *)
(* time_constraints (the day) and specific_time ('HH:MM', here the pair of *)
(* its numbers).  The e-mail is marked urgent, so the priority is high.    *)
MatchedDayTimes ==
    [day : {"monday", "thursday"}, hour : {2, 12}, minute : {0, 30}, ampm : {"am", "pm"}]

_enhanced_fallback_parsing(match, default_duration) ==
    LET hour24 == IF match.ampm = "pm" /\ match.hour # 12 THEN match.hour + 12
                  ELSE IF match.ampm = "am" /\ match.hour = 12 THEN 0
                  ELSE match.hour
    IN  [participants     |-> Participants,
         duration_minutes |-> default_duration,
         time_constraints |-> match.day,
         priority         |-> "high",
         specific_time    |-> [hh |-> hour24, mm |-> match.minute]]

(* _priority_based_scheduling on the parameters parsed from such an e-mail, *)
(* with empty calendars                                                    *)
CallPriorityBasedScheduling ==
    /\ pc = "call"
    /\ \E match \in MatchedDayTimes, duration \in Durations :
       \E params \in {_enhanced_fallback_parsing(match, duration)} :
           Called("_priority_based_scheduling", <<params>>,
                  _priority_based_scheduling(
                      params,
                      <<[email |-> "p1", events |-> <<>>],
                        [email |-> "p2", events |-> <<>>]>>,
                      [cache |-> _calendar_cache, expiry |-> _cache_expiry],
                      now).result)

(* The slot of the language model with its times written as               *)
(* YYYY-MM-DDTHH:MM:SS, without the +05:30 that fromisoformat does not      *)
(* need: the client returns whatever strings the model wrote once they     *)
(* parse (llm_client.py, lines 545-561).                                   *)
WithoutOffset(ai_result) ==
    LET Naive(s) == [date |-> s.date, hh |-> s.hh, mm |-> s.mm, offset |-> ""]
    IN  [ai_result EXCEPT !.start_time = Naive(@), !.end_time = Naive(@)]

(* The first iteration of validate_and_optimize_scheduling for a           *)
(* normal-priority request of two participants with empty calendars, a     *)
(* flexible constraint and 30 minutes: the data is fetched, the attempt is *)
(* scheduled, formatted and scored, and with a score of 95 or more the     *)
(* finalized result is returned (None stands for "the loop goes on").      *)
CallFirstIteration ==
    /\ pc = "call"
    /\ \E answers \in Answers :
       \E params \in {[participants        |-> Participants,
                       duration_minutes    |-> 30,
                       time_constraints    |-> "flexible",
                       priority            |-> "normal",
                       scheduling_approach |-> "default"]} :
       \E window \in {_parse_time_constraints(params.time_constraints, now)} :
       \E provider \in {ProviderCalendar("free", window[1].date)} :
       \E got \in {get_multiple_users_events(
                       <<"p1", "p2">>, window[1], window[2],
                       [cache |-> _calendar_cache, expiry |-> _cache_expiry],
                       now, provider, answers)} :
       \E calendar_data \in
               {[i \in 1..Len(got.results) |->
                    [email  |-> got.results[i].email,
                     events |-> [k \in 1..Len(got.results[i].events) |->
                                    to_dict(got.results[i].events[k])]]]} :
       \E llm_response \in LLMResponses(params, now)
                              \cup {WithoutOffset(r) : r \in LLMResponses(params, now) \ {Raise}} :
       \E run \in {RunAttempt(params, calendar_data, got.mgr, now, provider,
                              llm_response, answers,
                              HackathonRequest,
                              _create_calendar_snapshot(calendar_data))} :
           Called("validate_and_optimize_scheduling",
                  [params |-> params, calendar_data |-> calendar_data,
                   llm_response |-> llm_response],
                  [score    |-> run.score,
                   returned |-> IF run.score >= 950
                                THEN _finalize_result(run.output_data,
                                                      run.validation_results, 1)
                                ELSE None])

(* The test client's validate_response_format.  A timestamp [date, hh, mm] *)
(* stands for the string strftime writes, which is the form the regular    *)
(* expression asks for; a timestamp written in another form carries a      *)
(* further field.  Lists are sequences, dicts are records.                 *)
required_fields ==
    {"Request_id", "Datetime", "Location", "From", "Attendees",
     "Subject", "EmailContent", "EventStart", "EventEnd", "Duration_mins"}

MatchesDatetimeFormat(datetime_str) == DOMAIN datetime_str = {"date", "hh", "mm"}

validate_response_format(response_data) ==
    /\ \A field \in required_fields : field \in DOMAIN response_data
    /\ "Attendees" \in DOMAIN response_data =>
           \A i \in 1..Len(response_data.Attendees) :
               /\ "email" \in DOMAIN response_data.Attendees[i]
               /\ "events" \in DOMAIN response_data.Attendees[i]
    /\ \A field \in {"EventStart", "EventEnd"} :
           field \in DOMAIN response_data => MatchesDatetimeFormat(response_data[field])

CallProcessMeetingRequest ==
    /\ pc = "call"
    /\ \E request \in Requests :
       \E all_attendees \in ListsOfSet(AllAttendees(request)) :
           Called("process_meeting_request", <<request>>,
                  process_meeting_request(request, now, all_attendees))

(* An exception reaches one of the places that answer with a fallback, for *)
(* a request that passed _validate_input                                   *)
CallFallbackResponse ==
    /\ pc = "call"
    /\ \E place \in FallbackPlaces :
       \E request \in {r \in Requests : _validate_input(r)} :
       \E all_attendees \in ListsOfSet(AllAttendees(request)) :
           Called("fallback", <<place, request>>,
                  FallbackResponse(place, request, now, all_attendees))

(* The time since the entry of a cache key was stored: just stored, one    *)
(* minute before the end of the cache duration, at its end, one minute     *)
(* after it.                                                               *)
CacheAges == {0, CacheMinutes - 1, CacheMinutes, CacheMinutes + 1}

NewManager == [cache |-> [k \in {} |-> <<>>], expiry |-> [k \in {} |-> 0]]

(* The events stored by an earlier fetch on the day d: none, or a meeting  *)
(* that has left the provider's calendar since.                            *)
StoredEvents(d) == { <<>>, <<Ev(d, 14, 0, 15, 0, "Moved")>> }

(* The manager in which _cache_events stored `stored` under cache_key      *)
(* `age` minutes before now_                                               *)
ManagerWith(cache_key, stored, age, now_) ==
    _cache_events(cache_key, stored, NewManager, now_ - age)

CallGetUserEvents ==
    /\ pc = "call"
    /\ \E email \in Participants, name \in {"partial", "cross"}, answer \in {"ok", "fail"} :
       \E window \in {_parse_time_constraints("tomorrow", now)} :
       \E provider \in {ProviderCalendar(name, window[1].date)} :
       \E stored \in StoredEvents(window[1].date), age \in CacheAges :
       \E mgr \in {NewManager,
                   ManagerWith(<<email, window[1], window[2]>>, stored, age, now)} :
           Called("get_user_events",
                  <<email, window[1], window[2], mgr, provider, answer, age>>,
                  get_user_events(email, window[1], window[2], mgr, now, provider, answer))

(* The provider's calendars on the day d when an imported event of each   *)
(* participant has a start the manager cannot read.                        *)
MalformedCalendar(d) ==
    [p \in Participants |->
        <<Ev(d, 10, 0, 11, 30, "Review"),
          [start_time |-> [date |-> d, hh |-> 14, mm |-> 0, malformed |-> TRUE],
           end_time   |-> At(d, 15, 0),
           summary    |-> "Import"]>>]

CallGetUserEventsMalformed ==
    /\ pc = "call"
    /\ \E email \in Participants, answer \in {"ok", "fail"} :
       \E window \in {_parse_time_constraints("tomorrow", now)} :
       \E provider \in {MalformedCalendar(window[1].date)} :
           Called("get_user_events of malformed events",
                  <<email, window[1], window[2], NewManager, provider, answer>>,
                  get_user_events(email, window[1], window[2], NewManager, now,
                                  provider, answer))

CallGetMultipleUsersEvents ==
    /\ pc = "call"
    /\ \E order \in Orders, name \in {"partial", "cross"}, answers \in Answers :
       \E window \in {_parse_time_constraints("tomorrow", now)} :
       \E provider \in {ProviderCalendar(name, window[1].date)} :
       \E stored \in StoredEvents(window[1].date), age \in CacheAges :
       \E mgr \in {NewManager,
                   ManagerWith(<<"p1", window[1], window[2]>>, stored, age, now)} :
           Called("get_multiple_users_events",
                  <<order, window[1], window[2], mgr, provider, answers>>,
                  get_multiple_users_events(order, window[1], window[2], mgr, now,
                                            provider, answers))

CallNext ==
    \/ CallGetUserEvents
    \/ CallGetUserEventsMalformed
    \/ CallGetMultipleUsersEvents
    \/ CallProcessMeetingRequest
    \/ CallFallbackResponse
    \/ CallFirstIteration
    \/ CallPriorityBasedScheduling
    \/ CallNormalPriorityScheduling
    \/ CallParseTimeConstraints
    \/ CallFindPreferredTimeSlot
    \/ CallFindFreeSlots
    \/ CallFindCommonFreeSlots
    \/ CallOverlap
    \/ CallCalculateScore

CallSpec == CallInit /\ [][CallNext]_vars

-----------------------------------------------------------------------------
(* The worker pool of get_multiple_users_events, lines 199-213, step by    *)
(* step.  `call` holds the state of one call:                              *)
(*   emails   the submitted emails, in order;                              *)
(*   stuck    the emails whose get_user_events never returns;              *)
(*   failing  the emails whose fetch fails (get_user_events returns []);   *)
(*   future   per submitted task: "queued", "running" or "finished";       *)
(*   yielded  the futures as_completed has handed to the loop;             *)
(*   results  the dict of the answers;                                     *)
(*   waited   the seconds the loop has been blocked in as_completed;       *)
(*   at       "as_completed" inside the loop, "returned" after it.         *)
(* as_completed is called without a timeout and hands out finished futures *)
(* only, so future.result(timeout=30) never waits; leaving the with block  *)
(* joins the workers, which have all finished when the loop ends.          *)

MaxWorkers == 5

ResultTimeout == 30

WaitSeconds == 10

PoolSizes == {1, 2, MaxWorkers + 1}

PoolEmails(n) == [i \in 1..n |-> <<"p1", "p2", "p3", "p4", "p5", "p6">>[i]]

PoolDay == 3

(* What get_user_events returns for an email of the pool *)
PoolAnswer(email, failing) ==
    IF email \in failing THEN <<>> ELSE <<Ev(PoolDay, 10, 0, 11, 30, "Review")>>

AtMostOne(S) == {T \in SUBSET S : Cardinality(T) <= 1}


PoolInit ==
    /\ AtRest
    /\ now = Wednesday10
    /\ \E n \in PoolSizes :
       \E stuck \in AtMostOne(Range(PoolEmails(n))), failing \in AtMostOne(Range(PoolEmails(n))) :
          call = [fn      |-> "get_multiple_users_events",
                  emails  |-> PoolEmails(n),
                  stuck   |-> stuck,
                  failing |-> failing,
                  future  |-> [i \in 1..n |-> "queued"],
                  yielded |-> {},
                  results |-> [k \in {} |-> <<>>],
                  waited  |-> 0,
                  at      |-> "as_completed"]

PoolStep(next) ==
    /\ call' = next
    /\ UNCHANGED <<now, pc, request_data, meeting_params, providerEvents,
                   _calendar_cache, _cache_expiry, heap, iteration, best_result,
                   best_score, returned, before_snapshot, attempts, ticks>>

Tasks == 1..Len(call.emails)

Busy == {i \in Tasks : call.future[i] = "running"}

(* A free worker of the max_workers = min(len(emails), 5) threads takes   *)
(* the oldest queued task.                                                 *)
WorkerTakes ==
    /\ call.at = "as_completed"
    /\ \E i \in Tasks :
          /\ call.future[i] = "queued"
          /\ \A j \in 1..(i - 1) : call.future[j] # "queued"
          /\ Cardinality(Busy) < (IF Len(call.emails) < MaxWorkers
                                  THEN Len(call.emails) ELSE MaxWorkers)
          /\ PoolStep([call EXCEPT !.future[i] = "running"])

(* get_user_events returns in its worker *)
FetchCompletes ==
    /\ call.at = "as_completed"
    /\ \E i \in Busy :
          /\ call.emails[i] \notin call.stuck
          /\ PoolStep([call EXCEPT !.future[i] = "finished"])

(* as_completed hands a finished future to the loop, which stores its      *)
(* result                                                                  *)
AsCompletedYields ==
    /\ call.at = "as_completed"
    /\ \E i \in Tasks \ call.yielded :
          /\ call.future[i] = "finished"
          /\ PoolStep([call EXCEPT
                  !.yielded = @ \cup {i},
                  !.results = Put(@, call.emails[i],
                                  PoolAnswer(call.emails[i], call.failing)),
                  !.waited = 0])

(* The loop is blocked in as_completed: no finished future is left to hand *)
(* out.  The clock stops being counted after ResultTimeout + WaitSeconds.  *)
AsCompletedWaits ==
    /\ call.at = "as_completed"
    /\ call.yielded # Tasks
    /\ \A i \in Tasks \ call.yielded : call.future[i] # "finished"
    /\ call.waited <= ResultTimeout
    /\ PoolStep([call EXCEPT !.waited = @ + WaitSeconds])

(* Every future was handed out: the loop ends and the function returns *)
PoolReturns ==
    /\ call.at = "as_completed"
    /\ call.yielded = Tasks
    /\ PoolStep([call EXCEPT !.at = "returned"])

PoolNext ==
    \/ WorkerTakes
    \/ FetchCompletes
    \/ AsCompletedYields
    \/ AsCompletedWaits
    \/ PoolReturns

(* The threads are scheduled and every step that stays possible is taken;  *)
(* a stuck fetch has no step.                                              *)
PoolSpec == PoolInit /\ [][PoolNext]_vars /\ WF_vars(PoolNext)

-----------------------------------------------------------------------------
(* Properties of the validation loop                                       *)

(* A returned record without its metadata *)
Payload(record) == [k \in DOMAIN record \ {"MetaData"} |-> record[k]]

LastAttempt == attempts[Len(attempts)]

NoneAccepted == \A i \in 1..Len(attempts) : attempts[i].score < 950

IsEmergencyFallback(record) ==
    /\ record # None
    /\ "emergency_fallback" \in DOMAIN record.MetaData
    /\ record.Attendees = <<>>

(* C1: the loop runs at most five attempts, an attempt that raises counts  *)
(* as one, and the loop is never left waiting: with fewer than five        *)
(* attempts run it is still looping or has returned, and once it has       *)
(* finished it has returned the accepted attempt with its validation       *)
(* metadata, the output of one of its attempts, or the emergency fallback. *)
C1_AtMostFiveAttemptsThenReturns ==
    /\ iteration \in 0..5
    /\ Len(attempts) <= iteration
    /\ pc = "fetch" => iteration = 0 /\ returned = None
    /\ pc = "loop" => iteration < 5 /\ returned = None
    /\ pc = "done" =>
          /\ returned # None
          /\ \/ /\ attempts # <<>>
                /\ LastAttempt.score >= 950
                /\ "validation_applied" \in DOMAIN returned.MetaData
                /\ Payload(returned) = Payload(LastAttempt.output)
             \/ \E i \in 1..Len(attempts) : returned = attempts[i].output
             \/ IsEmergencyFallback(returned)

(* Five attempts were run, some of them raised, and the best one is back *)
C1_Witness ==
    /\ pc = "done"
    /\ iteration = 5
    /\ Len(attempts) \in 1..4
    /\ NoneAccepted
    /\ \E i \in 1..Len(attempts) : returned = attempts[i].output

(* C2: an attempt that scores 95 or more is the last attempt of the run:   *)
(* the loop has ended, and the returned record is that attempt's output    *)
(* whose metadata carry the attempt's number as validation_iterations.     *)
C2_FirstAcceptedAttemptEndsLoop ==
    \A i \in 1..Len(attempts) :
        attempts[i].score >= 950 =>
            /\ i = Len(attempts)
            /\ pc = "done"
            /\ returned # None
            /\ Payload(returned) = Payload(attempts[i].output)
            /\ "validation_iterations" \in DOMAIN returned.MetaData
            /\ returned.MetaData.validation_iterations = iteration
            /\ returned.MetaData.scheduling_method
                   = attempts[i].output.MetaData.scheduling_method

(* An attempt is accepted after an imperfect one and a raising one *)
C2_Witness ==
    /\ pc = "done"
    /\ Len(attempts) >= 2
    /\ iteration > Len(attempts)
    /\ LastAttempt.score >= 950
    /\ returned.MetaData.validation_iterations = iteration

(* C3: when the loop has ended and no attempt reached 95, the returned     *)
(* record is the output of one of the attempts as soon as one attempt was  *)
(* scored, and it is the emergency fallback only when none was.            *)
C3_BestUnlessNoAttemptScored ==
    (pc = "done" /\ NoneAccepted) =>
        IF attempts # <<>>
        THEN /\ \E i \in 1..Len(attempts) : returned = attempts[i].output
             /\ ~IsEmergencyFallback(returned)
        ELSE IsEmergencyFallback(returned)

(* The only scored attempt fails two checks, the other attempts raise, and *)
(* it is returned.                                                         *)
C3_Witness ==
    /\ pc = "done"
    /\ Len(attempts) = 1
    /\ iteration = 5
    /\ attempts[1].score < 700
    /\ returned = attempts[1].output

(* C4: when the loop has ended and no attempt reached 95, the returned     *)
(* record is the output of the earliest attempt among those whose score is *)
(* the highest of the run.                                                 *)
C4_ReturnsEarliestMaximum ==
    (pc = "done" /\ NoneAccepted /\ attempts # <<>>) =>
        \E i \in 1..Len(attempts) :
            /\ returned = attempts[i].output
            /\ \A j \in 1..Len(attempts) : attempts[j].score <= attempts[i].score
            /\ \A j \in 1..(i - 1) : attempts[j].score < attempts[i].score

(* Two attempts with different outputs tie and a later one scored less;    *)
(* the earlier of the two is returned.                                     *)
C4_Witness ==
    /\ pc = "done"
    /\ NoneAccepted
    /\ \E i, j \in 1..Len(attempts) :
          /\ i < j
          /\ attempts[i].score = attempts[j].score
          /\ attempts[i].output # attempts[j].output
          /\ \A k \in 1..Len(attempts) : attempts[k].score <= attempts[i].score
          /\ returned = attempts[i].output
    /\ \E k \in 1..Len(attempts) : attempts[k].score < best_score

(* C5: once fetched, original_calendar_data stays what the before-snapshot *)
(* recorded, and every attempt starts from it: the calendar an attempt     *)
(* puts out holds, for each participant, the original number of events     *)
(* plus the new meeting.                                                   *)
C5_AttemptsWorkOnFreshCopy ==
    pc # "fetch" =>
        /\ _create_calendar_snapshot(heap["original"]) = before_snapshot
        /\ \A a \in 1..Len(attempts) :
              /\ Len(attempts[a].output.Attendees) = Len(before_snapshot)
              /\ \A i \in 1..Len(before_snapshot) :
                    /\ attempts[a].output.Attendees[i].email = before_snapshot[i].email
                    /\ Len(attempts[a].output.Attendees[i].events)
                           = before_snapshot[i].total_events + 1

(* A second attempt ran after one that relocated events and appended the   *)
(* new meeting to its working copy.                                        *)
C5_Witness ==
    /\ Len(attempts) >= 2
    /\ "rescheduled_count" \in DOMAIN attempts[1].result
    /\ attempts[1].result.rescheduled_count > 0
    /\ \E i \in 1..Len(before_snapshot) :
          \E k \in 1..before_snapshot[i].total_events :
              attempts[1].output.Attendees[i].events[k].StartTime
                  # heap["original"][i].events[k].StartTime
    /\ heap["working"] # heap["original"]

-----------------------------------------------------------------------------
(* Properties of the scheduling policies                                   *)

Overlapping(event1, event2) ==
    /\ fromisoformat(event1.StartTime) < fromisoformat(event2.EndTime)
    /\ fromisoformat(event1.EndTime) > fromisoformat(event2.StartTime)

(* The conflicts of attempt a: the original events that overlap its slot *)
ConflictsOf(a) ==
    _find_conflicts(attempts[a].result.start_time, attempts[a].result.end_time,
                    heap["original"])

(* The original events of participant i that attempt a left elsewhere *)
Displaced(a, i) ==
    {k \in 1..Len(heap["original"][i].events) :
        \/ attempts[a].output.Attendees[i].events[k].StartTime
               # heap["original"][i].events[k].StartTime
        \/ attempts[a].output.Attendees[i].events[k].EndTime
               # heap["original"][i].events[k].EndTime}

(* C6: after a high-priority attempt in which every conflicting event got  *)
(* a destination, no participant has two overlapping events in the         *)
(* calendar the attempt puts out, the original calendars having none.      *)
C6_NoOverlapAfterDisplacement ==
    \A a \in 1..Len(attempts) :
        ( /\ attempts[a].params.priority = "high"
          /\ "rescheduled_count" \in DOMAIN attempts[a].result
          /\ attempts[a].result.rescheduled_count = Len(ConflictsOf(a))
          /\ _validate_no_invalid_conflicts(before_snapshot) )
        => \A i \in 1..Len(attempts[a].output.Attendees) :
               \A j, k \in 1..Len(attempts[a].output.Attendees[i].events) :
                   j < k => ~Overlapping(attempts[a].output.Attendees[i].events[j],
                                         attempts[a].output.Attendees[i].events[k])

(* C7: in a high-priority attempt, two displaced events of one participant *)
(* are never left in overlapping destinations.                             *)
C7_DestinationsDoNotOverlap ==
    \A a \in 1..Len(attempts) :
        attempts[a].params.priority = "high" =>
            \A i \in 1..Len(heap["original"]) :
                \A j, k \in Displaced(a, i) :
                    j < k => ~Overlapping(attempts[a].output.Attendees[i].events[j],
                                          attempts[a].output.Attendees[i].events[k])

(* C8: the slot of a high-priority attempt starts at 09:00 of the day the  *)
(* constraint resolves to (the coming Thursday for "thursday", the next    *)
(* day for "tomorrow", the next business day otherwise), lasts the         *)
(* requested duration, and is the slot of the output.                      *)
C8_HighPriorityReturnsPreferredSlot ==
    \A a \in 1..Len(attempts) :
        attempts[a].params.priority = "high" =>
            LET start == attempts[a].result.start_time
                end == attempts[a].result.end_time
                today == now \div MinutesPerDay
                c == attempts[a].params.time_constraints
            IN  /\ start.hh = 9 /\ start.mm = 0
                /\ fromisoformat(end) - fromisoformat(start)
                       = attempts[a].params.duration_minutes
                /\ IF c = "thursday"
                   THEN start.date % 7 = 3 /\ start.date \in (today + 1)..(today + 7)
                   ELSE start.date = today + 1
                /\ attempts[a].output.EventStart = start
                /\ attempts[a].output.EventEnd = end

(* A high-priority attempt with two conflicts of which one found no        *)
(* destination.                                                            *)
C8_Witness ==
    \E a \in 1..Len(attempts) :
        /\ attempts[a].params.priority = "high"
        /\ "rescheduled_count" \in DOMAIN attempts[a].result
        /\ attempts[a].result.rescheduled_count = 1
        /\ Len(ConflictsOf(a)) = 2

(* C9: in a normal-priority attempt, a slot the language model supplied is *)
(* the result only if it overlaps no event of the snapshot and starts      *)
(* after the current time; otherwise the result is that of the             *)
(* common-free-slot search (its first slot, or its flagged default).       *)
C9_AdvisorSlotValidatedElseSearch ==
    [][ (Len(attempts') > Len(attempts) /\ meeting_params.priority = "normal") =>
            LET result == attempts'[Len(attempts')].result
            IN  IF result \in LLMResponses(meeting_params, now)
                THEN /\ fromisoformat(result.start_time) > now
                     /\ \A i \in 1..Len(before_snapshot) :
                           \A k \in 1..Len(before_snapshot[i].events) :
                               ~_events_overlap(
                                   [start |-> result.start_time, end |-> result.end_time],
                                   before_snapshot[i].events[k])
                ELSE result.reasoning \in
                         {"First available common slot",
                          "No common free time found, suggesting default slot"} ]_vars

-----------------------------------------------------------------------------
(* Properties of single functions, checked on direct calls (CallSpec)      *)

CallOf(fn) == call # None /\ call.fn = fn

(* The common free slots the search of a _normal_priority_scheduling call  *)
(* gets *)
SearchedSlots ==
    LET window == _parse_time_constraints(call.args.params.time_constraints, now)
    IN  find_common_free_slots(emails(call.args.calendar_data), window[1], window[2],
                               call.args.params.duration_minutes, call.args.mgr, now,
                               call.args.provider, call.args.answers).slots

(* The advisor's slot was returned by _normal_priority_scheduling *)
AdvisorSlotAccepted ==
    /\ call.args.llm_response # Raise
    /\ call.out = find_optimal_meeting_time(call.args.params, call.args.llm_response, now)

(* The first Monday-to-Friday day after today *)
NextBusinessDate ==
    LET today == now \div MinutesPerDay
    IN  CHOOSE d \in (today + 1)..(today + 3) :
            /\ d % 7 < 5
            /\ \A e \in (today + 1)..(d - 1) : e % 7 >= 5

(* C11: when normal-priority scheduling returns no advisor slot and the    *)
(* common free slots are empty, the result is the default: 10:00 on the    *)
(* first Monday-to-Friday day after today, of the requested duration, with *)
(* the reasoning that names it a default slot.                             *)
C11_DefaultSlotWhenNoCommonSlot ==
    ( /\ CallOf("_normal_priority_scheduling")
      /\ ~AdvisorSlotAccepted
      /\ SearchedSlots = <<>> )
    => /\ call.out.start_time = At(NextBusinessDate, 10, 0)
       /\ fromisoformat(call.out.end_time)
              = fromisoformat(call.out.start_time) + call.args.params.duration_minutes
       /\ call.out.reasoning = "No common free time found, suggesting default slot"

(* A default slot on the Monday after a Friday evening *)
C11_Witness ==
    /\ CallOf("_normal_priority_scheduling")
    /\ ~AdvisorSlotAccepted
    /\ SearchedSlots = <<>>
    /\ weekday(now) = 4
    /\ call.out.start_time.date = now \div MinutesPerDay + 3
    /\ call.args.params.duration_minutes = 150

(* A slot, a pair of timestamp strings, lies on one day between 09:00 and   *)
(* 18:00 *)
InBusinessHours(slot) ==
    /\ slot[1].date = slot[2].date
    /\ fromisoformat(slot[1]) >= replace(fromisoformat(slot[1]), BUSINESS_HOURS_START, 0)
    /\ fromisoformat(slot[2]) <= replace(fromisoformat(slot[1]), BUSINESS_HOURS_END, 0)

OnWeekday(slot) == weekday(fromisoformat(slot[1])) < 5

DisjointFromAll(slot, events) ==
    \A k \in 1..Len(events) :
        \/ fromisoformat(slot[2]) <= fromisoformat(events[k].start_time)
        \/ fromisoformat(events[k].end_time) <= fromisoformat(slot[1])

(* C12: every slot find_free_slots returns is disjoint from every busy     *)
(* event it was given and lies between 09:00 and 18:00 of a Monday-to-     *)
(* Friday day.                                                             *)
C12_FreeSlotsDisjointInBusinessHours ==
    CallOf("find_free_slots") =>
        \A i \in 1..Len(call.out) :
            /\ DisjointFromAll(call.out[i], call.args[1])
            /\ InBusinessHours(call.out[i])
            /\ OnWeekday(call.out[i])

(* What find_free_slots returns for one participant of a                   *)
(* find_common_free_slots call                                             *)
FreeSlotsOf(email) ==
    find_free_slots(
        get_user_events(email, call.args[2], call.args[3],
                        [cache |-> _calendar_cache, expiry |-> _cache_expiry],
                        now, call.args[5], call.args[6][email]).events,
        call.args[2], call.args[3], call.args[4])

(* C13: every slot find_common_free_slots returns is one of the slots      *)
(* find_free_slots returns for each participant, and the result is empty   *)
(* when some participant has no free slot.                                 *)
C13_CommonSlotsAreEachParticipantsSlots ==
    CallOf("find_common_free_slots") =>
        \A email \in Range(call.args[1]) :
            /\ Range(call.out) \subseteq Range(FreeSlotsOf(email))
            /\ FreeSlotsOf(email) = <<>> => call.out = <<>>

(* A common slot of two participants whose free slots differ *)
C13_Witness ==
    /\ CallOf("find_common_free_slots")
    /\ call.out # <<>>
    /\ Range(FreeSlotsOf("p1")) # Range(FreeSlotsOf("p2"))

(* The three overlap tests applied to an interval pair *)
OverlapTests(a, b) ==
    << _times_overlap(a.start, a.end, b.start, b.end),
       _events_overlap(a, b),
       overlaps_with([start_time |-> a.start, end_time |-> a.end], b.start, b.end) >>

(* C14: on well-formed timestamps each of the three overlap tests is true  *)
(* exactly when a.start < b.end and a.end > b.start (in the order of the   *)
(* timestamps); so each is symmetric, and false on intervals that touch.   *)
C14_OverlapTestsAgreeSymmetricOpenEnded ==
    CallOf("overlap") =>
        LET a == call.args[1]
            b == call.args[2]
            expected == StrLess(a.start, b.end) /\ StrLess(b.start, a.end)
        IN  /\ call.out._times_overlap = expected
            /\ call.out._events_overlap = expected
            /\ call.out.overlaps_with = expected
            /\ OverlapTests(b, a) = OverlapTests(a, b)
            /\ (a.end = b.start \/ b.end = a.start)
                   => OverlapTests(a, b) = <<FALSE, FALSE, FALSE>>

(* Two intervals that touch across midnight were tested *)
C14_Witness ==
    /\ CallOf("overlap")
    /\ call.args[1].end = call.args[2].start
    /\ call.args[1].start.date < call.args[2].end.date
    /\ call.out = [_times_overlap |-> FALSE, _events_overlap |-> FALSE,
                    overlaps_with |-> FALSE]

(* The constraint texts that name a weekday and no relative period, and   *)
(* the weekday such a text names                                           *)
NamesWeekday(text) == text = "thursday morning" \/ \E i \in 1..7 : text = DayNames[i]

NamedWeekday(text) == (CHOOSE i \in 1..7 : contains(text, DayNames[i])) - 1

(* C15: for a constraint naming the weekday w, the window starts on a day  *)
(* whose weekday is w: today when today is w and the hour is before 18,    *)
(* the next w otherwise, one to seven days ahead (seven when today is w    *)
(* and the hour is 18 or later).                                           *)
C15_NamedWeekdayResolvesToNextOccurrence ==
    (CallOf("_parse_time_constraints") /\ NamesWeekday(call.args[1])) =>
        LET w == NamedWeekday(call.args[1])
            today == now \div MinutesPerDay
            ahead == call.out[1].date - today
        IN  /\ call.out[1].date % 7 = w
            /\ IF today % 7 = w
               THEN ahead = (IF hour(now) < 18 THEN 0 ELSE 7)
               ELSE ahead \in 1..6

(* Thursday asked for on a Thursday evening: the Thursday of next week *)
C15_Witness ==
    /\ CallOf("_parse_time_constraints")
    /\ call.args[1] = "thursday"
    /\ weekday(now) = 3
    /\ hour(now) >= 18
    /\ call.out[1].date = now \div MinutesPerDay + 7

(* C16: the window of a named weekday and the window of "tomorrow" cover   *)
(* one calendar day: they start at 00:00 and end no later than 00:00 of    *)
(* the next day.                                                           *)
C16_WindowIsOneCalendarDay ==
    ( /\ CallOf("_parse_time_constraints")
      /\ NamesWeekday(call.args[1]) \/ call.args[1] = "tomorrow" )
    => /\ call.out[1].hh = 0 /\ call.out[1].mm = 0
       /\ fromisoformat(call.out[2]) <= fromisoformat(call.out[1]) + days(1)

(* C17: for a request that names a weekday and a time h:m, the slot of the *)
(* policy is on that weekday and starts at h:m.                            *)
C17_SlotStartsAtRequestedTime ==
    CallOf("_priority_based_scheduling") =>
        LET params == call.args[1]
        IN  /\ contains(params.time_constraints,
                        DayNames[(call.out.start_time.date % 7) + 1])
            /\ call.out.start_time.hh = params.specific_time.hh
            /\ call.out.start_time.mm = params.specific_time.mm

(* C18: the score is max(0, 100 x passed/total - 10 per failed check that  *)
(* is time- or format-related - 5 per other failed check), and so lies in  *)
(* [0, 100].  Scores are in tenths of a point.                             *)
C18_ScoreFormulaAndRange ==
    CallOf("_calculate_correctness_score") =>
        LET checks == call.args[1].checks
            total == Cardinality(DOMAIN checks)
            failed == {n \in DOMAIN checks : ~checks[n]}
            critical == failed \cap {"time_constraints", "output_format"}
            raw == ((total - Cardinality(failed)) * 1000) \div total
                       - 100 * Cardinality(critical)
                       - 50 * Cardinality(failed \ critical)
        IN  /\ call.out = (IF raw > 0 THEN raw ELSE 0)
            /\ call.out \in 0..1000

(* Seven failed checks, both critical ones among them: 12.5 - 45 is        *)
(* floored to 0                                                            *)
C18_Witness ==
    /\ CallOf("_calculate_correctness_score")
    /\ Cardinality({n \in DOMAIN call.args[1].checks : call.args[1].checks[n]}) = 1
    /\ ~call.args[1].checks["time_constraints"]
    /\ ~call.args[1].checks["output_format"]
    /\ call.out = 0

-----------------------------------------------------------------------------
(* Properties of a request, checked on the validation loop (Spec)          *)

C21_BestEffortCarriesScoreAndIterations ==
    (pc = "done" /\ attempts # <<>> /\ NoneAccepted) =>
        /\ "validation_score" \in DOMAIN returned.MetaData
        /\ "validation_iterations" \in DOMAIN returned.MetaData
        /\ returned.MetaData.validation_score = best_score
        /\ returned.MetaData.validation_iterations = iteration

-----------------------------------------------------------------------------
(* Properties of the entry of a request and of the fallback responses      *)
(* (CallSpec)                                                              *)

(* C22: a request without Request_id, From or EmailContent does not enter  *)
(* the engine; its response reports an error and proposes no meeting slot. *)
C22_InvalidRequestGetsErrorWithoutSlot ==
    (CallOf("process_meeting_request") /\ ~_validate_input(call.args[1])) =>
        /\ call.out # Entered
        /\ "error" \in DOMAIN call.out \/ "error" \in DOMAIN call.out.MetaData
        /\ "EventStart" \notin DOMAIN call.out
        /\ "EventEnd" \notin DOMAIN call.out

(* The response is the emergency fallback of a request: 30 minutes from    *)
(* 10:00 on the first Monday-to-Friday day after today, for the organizer  *)
(* and the request's attendees, tagged as emergency fallback.              *)
IsTaggedFallbackFor(response, request) ==
    /\ response.EventStart = At(NextBusinessDate, 10, 0)
    /\ fromisoformat(response.EventEnd) = fromisoformat(response.EventStart) + 30
    /\ LET attendees == Get(response, "Attendees", <<>>)
       IN  {attendees[i].email : i \in 1..Len(attendees)} = AllAttendees(request)
    /\ "emergency_fallback" \in DOMAIN response.MetaData
    /\ response.MetaData.emergency_fallback = TRUE

(* C23: at each place where a response is built after an exception, the    *)
(* response is the tagged emergency fallback of the request.               *)
C23_EveryFallbackIsTaggedEmergencyFallback ==
    CallOf("fallback") => IsTaggedFallbackFor(call.out, call.args[2])

-----------------------------------------------------------------------------
(* Properties of the calendar manager (CallSpec)                           *)

IsStored(cache_key, mgr) == cache_key \in DOMAIN mgr.cache

IsStoredValid(cache_key, mgr) ==
    IsStored(cache_key, mgr) /\ ~(now > mgr.expiry[cache_key])

(* C24: in get_multiple_users_events the result has exactly one entry for  *)
(* every requested participant; a participant whose fetch failed has the   *)
(* empty list; every other participant has the events of the provider (or  *)
(* the valid cache entry), whatever happened to the fetches of the others. *)
C24_FailedFetchIsEmptyOthersUnaffected ==
    CallOf("get_multiple_users_events") =>
        LET order    == call.args[1]
            mgr      == call.args[4]
            provider == call.args[5]
            answers  == call.args[6]
            results  == call.out.results
            key(email) == <<email, call.args[2], call.args[3]>>
        IN  /\ Len(results) = Len(order)
            /\ \A i \in 1..Len(order) :
                  /\ results[i].email = order[i]
                  /\ IsStoredValid(key(order[i]), mgr)
                        => results[i].events = mgr.cache[key(order[i])]
                  /\ ~IsStoredValid(key(order[i]), mgr) /\ answers[order[i]] = "fail"
                        => results[i].events = <<>>
                  /\ ~IsStoredValid(key(order[i]), mgr) /\ answers[order[i]] = "ok"
                        => results[i].events =
                              ProviderList(provider, order[i], call.args[2], call.args[3])

(* The fetch of the first participant failed, and the second participant   *)
(* of the call still has an event of the provider.                         *)
C24_Witness ==
    /\ CallOf("get_multiple_users_events")
    /\ call.args[1] = <<"p1", "p2">>
    /\ call.args[4] = NewManager
    /\ call.args[6]["p1"] = "fail" /\ call.args[6]["p2"] = "ok"
    /\ Len(call.out.results) = 2
    /\ call.out.results[1].events = <<>>
    /\ call.out.results[2].events # <<>>

(* C26: get_user_events returns the stored entry, and leaves the cache as   *)
(* it is, only while at most CacheMinutes have passed since it was stored; *)
(* after that the entry is removed, a successful fetch returns the         *)
(* provider's events and stores them for CacheMinutes from now, and a      *)
(* failed fetch returns the empty list and stores nothing.                 *)
C26_CacheServedWithinTTLElseRefetched ==
    CallOf("get_user_events") =>
        LET key     == <<call.args[1], call.args[2], call.args[3]>>
            mgr     == call.args[4]
            answer  == call.args[6]
            age     == call.args[7]
            fetched == ProviderList(call.args[5], call.args[1], call.args[2], call.args[3])
            out     == call.out
        IN  /\ IsStored(key, mgr) /\ age <= CacheMinutes
                  => out.events = mgr.cache[key] /\ out.mgr = mgr
            /\ IsStored(key, mgr) /\ age > CacheMinutes /\ answer = "ok"
                  => /\ out.events = fetched
                     /\ IsStored(key, out.mgr)
                     /\ out.mgr.cache[key] = fetched
                     /\ out.mgr.expiry[key] = now + CacheMinutes
            /\ IsStored(key, mgr) /\ age > CacheMinutes /\ answer = "fail"
                  => /\ out.events = <<>>
                     /\ ~IsStored(key, out.mgr)
                     /\ key \notin DOMAIN out.mgr.expiry

(* An entry older than the cache duration, which differs from the          *)
(* provider's calendar, was replaced by the fetched events.                *)
C26_Witness ==
    /\ CallOf("get_user_events")
    /\ IsStored(<<call.args[1], call.args[2], call.args[3]>>, call.args[4])
    /\ call.args[7] > CacheMinutes
    /\ call.args[6] = "ok"
    /\ call.args[4].cache[<<call.args[1], call.args[2], call.args[3]>>] # call.out.events
    /\ call.out.events # <<>>
    /\ call.out.mgr.cache[<<call.args[1], call.args[2], call.args[3]>>] = call.out.events

-----------------------------------------------------------------------------
(* Properties of the worker pool (PoolSpec)                                *)

(* C25: get_multiple_users_events eventually returns, also when the fetch  *)
(* of one participant never completes, and then with the empty list for    *)
(* that participant.                                                       *)
C25_ReturnsDespiteStuckFetch ==
    <>(/\ call.at = "returned"
       /\ \A email \in call.stuck : call.results[email] = <<>>)

-----------------------------------------------------------------------------
(* Properties of the relocation of conflicting events (Spec)               *)

DurationOf(event) == fromisoformat(event.EndTime) - fromisoformat(event.StartTime)

(* C27: every event that a high-priority attempt left at other times than  *)
(* its original ones lasts as long as it did before.                       *)
C27_RelocatedEventKeepsDuration ==
    \A a \in 1..Len(attempts) :
        attempts[a].params.priority = "high" =>
            \A i \in 1..Len(heap["original"]) :
                \A k \in Displaced(a, i) :
                    DurationOf(attempts[a].output.Attendees[i].events[k])
                        = DurationOf(heap["original"][i].events[k])

(* An event of 45 minutes was moved by a high-priority attempt for a       *)
(* meeting of another duration.                                            *)
C27_Witness ==
    \E a \in 1..Len(attempts) :
        /\ attempts[a].params.priority = "high"
        /\ \E i \in 1..Len(heap["original"]) :
              \E k \in Displaced(a, i) :
                  /\ DurationOf(heap["original"][i].events[k]) = 45
                  /\ DurationOf(heap["original"][i].events[k])
                         # attempts[a].params.duration_minutes

(* The events of all participants that attempt a left at other times *)
AllDisplaced(a) ==
    UNION {{<<i, k>> : k \in Displaced(a, i)} : i \in 1..Len(heap["original"])}

(* The conflicts of attempt a for which no destination exists *)
WithoutDestination(a) ==
    {c \in 1..Len(ConflictsOf(a)) :
        _find_alternative_slot_for_meeting(ConflictsOf(a)[c], heap["original"]) = None}

(* C28: a high-priority attempt reports as rescheduled_count (0 when the   *)
(* result carries none) the number of events it moved to other times: 0    *)
(* when the preferred slot has no conflicts; and a conflicting event       *)
(* without a destination is still at its original times.                   *)
C28_CountIsNumberOfMovedEvents ==
    \A a \in 1..Len(attempts) :
        attempts[a].params.priority = "high" =>
            /\ Get(attempts[a].result, "rescheduled_count", 0)
                   = Cardinality(AllDisplaced(a))
            /\ ConflictsOf(a) = <<>>
                   => Get(attempts[a].result, "rescheduled_count", 0) = 0
            /\ \A c \in WithoutDestination(a) :
                   \E i \in 1..Len(heap["original"]) :
                       /\ heap["original"][i].email = ConflictsOf(a)[c].email
                       /\ \E k \in 1..Len(heap["original"][i].events) :
                              /\ heap["original"][i].events[k] = ConflictsOf(a)[c].event
                              /\ k \notin Displaced(a, i)

-----------------------------------------------------------------------------
(* Properties of the responses (CallSpec)                                  *)

CarriesHackathonFields(request) ==
    \A field \in DOMAIN HackathonRequest : field \in DOMAIN request

(* C29: every response to a request that carries the fields of the         *)
(* hackathon format passes validate_response_format: the result an         *)
(* accepted attempt returns, the answer process_meeting_request gives      *)
(* without entering the engine, and every fallback response.               *)
C29_ResponsesPassFormatValidation ==
    /\ CallOf("validate_and_optimize_scheduling") /\ call.out.returned # None
          => validate_response_format(call.out.returned)
    /\ CallOf("process_meeting_request") /\ CarriesHackathonFields(call.args[1])
                                         /\ call.out # Entered
          => validate_response_format(call.out)
    /\ CallOf("fallback") /\ CarriesHackathonFields(call.args[2])
          => validate_response_format(call.out)

-----------------------------------------------------------------------------
(* Properties of events with times that cannot be read (CallSpec)          *)

(* C30: an event whose start or end cannot be read is left out of what     *)
(* get_user_events returns, and the other events of the participant are    *)
(* returned.                                                               *)
C30_MalformedEventSkippedOthersKept ==
    CallOf("get_user_events of malformed events") /\ call.args[6] = "ok" =>
        LET Readable(event) == Parses(event.start_time) /\ Parses(event.end_time)
        IN  call.out.events =
                SelectSeq(ProviderList(call.args[5], call.args[1],
                                       call.args[2], call.args[3]),
                          Readable)

-----------------------------------------------------------------------------
(* Properties of the gaps of a calendar (CallSpec)                         *)

Minimum(S) == CHOOSE x \in S : \A y \in S : x <= y

(* The starts of the gaps of the window [start_dt, end_dt] that the busy   *)
(* events leave: the window's start and the ends of the events, where no   *)
(* event is under way.                                                     *)
GapStarts(events, start_dt, end_dt) ==
    {a \in {start_dt} \cup {fromisoformat(events[k].end_time) : k \in 1..Len(events)} :
        /\ start_dt <= a /\ a < end_dt
        /\ \A k \in 1..Len(events) :
               ~(fromisoformat(events[k].start_time) <= a
                    /\ a < fromisoformat(events[k].end_time))}

(* The end of the gap that starts at a *)
GapEnd(events, a, end_dt) ==
    Minimum({end_dt} \cup
            {t \in {fromisoformat(events[k].start_time) : k \in 1..Len(events)} : t > a})

(* The first instant from a on that lies between 09:00 and 18:00 *)
EarliestBusinessPoint(a) ==
    IF hour(a) < BUSINESS_HOURS_START THEN replace(a, BUSINESS_HOURS_START, 0)
    ELSE IF a < replace(a, BUSINESS_HOURS_END, 0) THEN a
    ELSE replace(a + days(1), BUSINESS_HOURS_START, 0)

(* C31: for every gap of the window, when the meeting fits between the     *)
(* earliest business-hours point of the gap, on a Monday-to-Friday day,    *)
(* and the end of the gap or of that day's business hours,                 *)
(* find_free_slots returns the slot that starts at that point.             *)
C31_EveryGapGivesItsEarliestBusinessSlot ==
    CallOf("find_free_slots") =>
        LET events   == call.args[1]
            start_dt == fromisoformat(call.args[2])
            end_dt   == fromisoformat(call.args[3])
            duration == call.args[4]
            Fits(s, b) ==
                /\ weekday(s) < 5
                /\ s + duration <= b
                /\ s + duration <= replace(s, BUSINESS_HOURS_END, 0)
            Emitted(s) ==
                \E i \in 1..Len(call.out) :
                    call.out[i] = <<strftime(s), strftime(s + duration)>>
        IN  \A a \in GapStarts(events, start_dt, end_dt) :
                Fits(EarliestBusinessPoint(a), GapEnd(events, a, end_dt))
                    => Emitted(EarliestBusinessPoint(a))

-----------------------------------------------------------------------------
(* Properties of the corrections between attempts (Spec)                   *)

(* C32: the normal-priority attempt that follows an attempt which failed   *)
(* the no_conflicts check does not return the advisor's slot.              *)
C32_AlgorithmicSearchAfterConflictFailure ==
    \A a \in 1..(Len(attempts) - 1) :
        ( /\ ~attempts[a].checks.no_conflicts
          /\ attempts[a + 1].params.priority = "normal" )
        => attempts[a + 1].result.reasoning # "LLM"


MIN_MEETING_DURATION == 15

MAX_MEETING_DURATION == 480

(* The parameters the loop holds after attempt a *)
ParamsAfter(a) ==
    IF a < Len(attempts) THEN attempts[a + 1].params ELSE meeting_params

(* C33: the corrections after an attempt leave a duration between          *)
(* MIN_MEETING_DURATION and MAX_MEETING_DURATION as it is, and a duration  *)
(* they change becomes 30 or 60.                                           *)
C33_DurationInRangeIsNeverCorrected ==
    \A a \in 1..Len(attempts) :
        LET before == attempts[a].params.duration_minutes
            after  == ParamsAfter(a).duration_minutes
        IN  /\ before \in MIN_MEETING_DURATION..MAX_MEETING_DURATION => after = before
            /\ after # before => after \in {30, 60}


-----------------------------------------------------------------------------
(* Properties of the preferred slot and of the destinations (Spec)         *)

(* The conflicts of attempt a that have a destination *)
WithDestination(a) == (1..Len(ConflictsOf(a))) \ WithoutDestination(a)

DestinationOf(a, c) ==
    _find_alternative_slot_for_meeting(ConflictsOf(a)[c], heap["original"])

(* C34: in a high-priority attempt, the destination found for a            *)
(* conflicting event does not overlap the slot of the new meeting.         *)
C34_DestinationLeavesPreferredSlot ==
    \A a \in 1..Len(attempts) :
        attempts[a].params.priority = "high" =>
            \A c \in WithDestination(a) :
                ~_times_overlap(DestinationOf(a, c)[1], DestinationOf(a, c)[2],
                                attempts[a].result.start_time,
                                attempts[a].result.end_time)

-----------------------------------------------------------------------------
(* Properties of the preferred slot (CallSpec)                             *)

(* C35: the day of the preferred slot of a constraint text lies in the     *)
(* window _parse_time_constraints gives for the same text at the same      *)
(* time, for which the calendars are fetched.                              *)
C35_PreferredDayInsideFetchedWindow ==
    CallOf("_find_preferred_time_slot") =>
        LET window == _parse_time_constraints(call.args[1], now)
        IN  /\ window[1].date <= call.out[1].date
            /\ call.out[1].date <= window[2].date

(* C38: the preferred slot starts after the current time, at 09:00, and    *)
(* ends the duration later; there always is one.                           *)
C38_PreferredSlotIsFutureNineOClock ==
    CallOf("_find_preferred_time_slot") =>
        /\ call.out # None
        /\ fromisoformat(call.out[1]) > now
        /\ call.out[1].hh = 9 /\ call.out[1].mm = 0
        /\ fromisoformat(call.out[2]) = fromisoformat(call.out[1]) + call.args[2]

(* The day named is today and 09:00 has passed: the slot is a week later *)
C38_Witness ==
    /\ CallOf("_find_preferred_time_slot")
    /\ call.args[1] = DayNames[weekday(now) + 1]
    /\ hour(now) >= 9
    /\ call.out[1].date = now \div MinutesPerDay + 7

-----------------------------------------------------------------------------
(* Properties of the returned response (Spec)                              *)

(* The time at which the request arrived *)
ArrivalTime == now - ticks * TickMinutes

AllPassed(checks) == \A name \in DOMAIN checks : checks[name]

IsAccepted(response) ==
    response # None /\ "validation_applied" \in DOMAIN response.MetaData

(* C37: every attempt is scored on 8 checks and reaches 95 exactly when    *)
(* all of them passed; an accepted result says all_checks_passed with a    *)
(* validation_score of 100.                                                *)
C37_AcceptedIffAllEightChecksPassed ==
    /\ \A a \in 1..Len(attempts) :
          /\ Cardinality(DOMAIN attempts[a].checks) = 8
          /\ attempts[a].score >= 950 <=> AllPassed(attempts[a].checks)
    /\ IsAccepted(returned) =>
          /\ returned.MetaData.all_checks_passed
          /\ returned.MetaData.validation_score = 1000

(* A result was accepted after an attempt that failed one check only *)
C37_Witness ==
    /\ IsAccepted(returned)
    /\ Len(attempts) >= 2
    /\ Cardinality({name \in DOMAIN attempts[1].checks : ~attempts[1].checks[name]}) = 1
    /\ attempts[1].score < 950
    /\ AllPassed(attempts[Len(attempts)].checks)

-----------------------------------------------------------------------------
(* Concurrent get_user_events calls on one CalendarManager.  The server    *)
(* runs threaded (flask_server.py line 211) with one scheduler and one     *)
(* manager for all requests, and each request's pool runs get_user_events  *)
(* in worker threads.  The threads share _calendar_cache, _cache_expiry    *)
(* and the clock; a step is one line of the code.  `call` holds per thread *)
(*   email        the participant of the call;                             *)
(*   answer       the provider's behaviour if the thread fetches;          *)
(*   at           the line the thread is about to run, or "done";          *)
(*   expiry_time  the local of _is_cache_valid, as the set of its values:  *)
(*                empty for None;                                          *)
(*   valid        what _is_cache_valid answered: "True", "False", or       *)
(*                "pending" before it answered;                            *)
(*   out          None, then [events] returned or [raised] by the call;    *)
(*   result       None, then [events], the results[email] of the pool      *)
(*                that ran the call.                                       *)

Threads == 1..2

SharedWindow == _parse_time_constraints("tomorrow", Wednesday10)

SharedKey(email) == <<email, SharedWindow[1], SharedWindow[2]>>

(* The participant's events at the provider, the same as an earlier fetch  *)
(* stored                                                                  *)
SharedEvents(email) ==
    ProviderList(ProviderCalendar("cross", SharedWindow[1].date), email,
                 SharedWindow[1], SharedWindow[2])

ThreadsInit ==
    /\ pc = "call"
    /\ now = Wednesday10
    /\ ticks = 0
    /\ request_data = None
    /\ meeting_params = None
    /\ providerEvents = None
    /\ heap = [original |-> <<>>, working |-> <<>>]
    /\ iteration = 0
    /\ best_result = None
    /\ best_score = 0
    /\ returned = None
    /\ before_snapshot = <<>>
    /\ attempts = <<>>
    /\ \E cached \in SUBSET Participants, age \in CacheAges :
          /\ _calendar_cache = [k \in {SharedKey(e) : e \in cached} |-> SharedEvents(k[1])]
          /\ _cache_expiry = [k \in {SharedKey(e) : e \in cached} |->
                                 now - age + CacheMinutes]
    /\ \E who \in [Threads -> Participants], answers \in [Threads -> {"ok", "fail"}] :
          call = [fn |-> "get_user_events",
                  thread |-> [t \in Threads |->
                      [email       |-> who[t],
                       answer      |-> answers[t],
                       at          |-> "77",
                       expiry_time |-> {},
                       valid       |-> "pending",
                       out         |-> None,
                       result      |-> None]]]

ThreadStep(t, next) ==
    /\ call' = [call EXCEPT !.thread[t] = next]
    /\ UNCHANGED <<now, pc, request_data, meeting_params, providerEvents, heap,
                   iteration, best_result, best_score, returned, before_snapshot,
                   attempts, ticks>>

KeyOf(t) == SharedKey(call.thread[t].email)

(* Line 77: if cache_key not in self._calendar_cache: return False *)
CacheLookup(t) ==
    /\ call.thread[t].at = "77"
    /\ IF KeyOf(t) \in DOMAIN _calendar_cache
       THEN ThreadStep(t, [call.thread[t] EXCEPT !.at = "80"])
       ELSE ThreadStep(t, [call.thread[t] EXCEPT !.at = "106", !.valid = "False"])
    /\ UNCHANGED <<_calendar_cache, _cache_expiry>>

(* Line 80: expiry_time = self._cache_expiry.get(cache_key) *)
ReadExpiry(t) ==
    /\ call.thread[t].at = "80"
    /\ ThreadStep(t, [call.thread[t] EXCEPT
            !.at = "81",
            !.expiry_time = IF KeyOf(t) \in DOMAIN _cache_expiry
                            THEN {_cache_expiry[KeyOf(t)]} ELSE {}])
    /\ UNCHANGED <<_calendar_cache, _cache_expiry>>

(* Line 81: if not expiry_time or datetime.now() > expiry_time; line 87 *)
CompareExpiry(t) ==
    /\ call.thread[t].at = "81"
    /\ IF \/ call.thread[t].expiry_time = {}
          \/ \E expiry_time \in call.thread[t].expiry_time : now > expiry_time
       THEN ThreadStep(t, [call.thread[t] EXCEPT !.at = "83"])
       ELSE ThreadStep(t, [call.thread[t] EXCEPT !.at = "104", !.valid = "True"])
    /\ UNCHANGED <<_calendar_cache, _cache_expiry>>

(* Line 83: self._calendar_cache.pop(cache_key, None) *)
EvictEvents(t) ==
    /\ call.thread[t].at = "83"
    /\ _calendar_cache' = Pop(_calendar_cache, KeyOf(t))
    /\ ThreadStep(t, [call.thread[t] EXCEPT !.at = "84"])
    /\ UNCHANGED _cache_expiry

(* Lines 84-85: self._cache_expiry.pop(cache_key, None); return False *)
EvictExpiry(t) ==
    /\ call.thread[t].at = "84"
    /\ _cache_expiry' = Pop(_cache_expiry, KeyOf(t))
    /\ ThreadStep(t, [call.thread[t] EXCEPT !.at = "106", !.valid = "False"])
    /\ UNCHANGED _calendar_cache

(* Line 104, outside the try block: return self._calendar_cache[cache_key] *)
ReturnCached(t) ==
    /\ call.thread[t].at = "104"
    /\ IF KeyOf(t) \in DOMAIN _calendar_cache
       THEN ThreadStep(t, [call.thread[t] EXCEPT
                !.at = "211", !.out = [events |-> _calendar_cache[KeyOf(t)]]])
       ELSE ThreadStep(t, [call.thread[t] EXCEPT !.at = "211", !.out = [raised |-> "KeyError"]])
    /\ UNCHANGED <<_calendar_cache, _cache_expiry>>

(* Lines 106-179 and 186-191: the fetch from the provider *)
FetchFromProvider(t) ==
    /\ call.thread[t].at = "106"
    /\ IF call.thread[t].answer = "fail"
       THEN ThreadStep(t, [call.thread[t] EXCEPT !.at = "211", !.out = [events |-> <<>>]])
       ELSE ThreadStep(t, [call.thread[t] EXCEPT !.at = "91"])
    /\ UNCHANGED <<_calendar_cache, _cache_expiry>>

(* Line 91: self._calendar_cache[cache_key] = events *)
StoreEvents(t) ==
    /\ call.thread[t].at = "91"
    /\ _calendar_cache' = Put(_calendar_cache, KeyOf(t), SharedEvents(call.thread[t].email))
    /\ ThreadStep(t, [call.thread[t] EXCEPT !.at = "92"])
    /\ UNCHANGED _cache_expiry

(* Lines 92 and 184: the expiry is stored and the events are returned *)
StoreExpiry(t) ==
    /\ call.thread[t].at = "92"
    /\ _cache_expiry' = Put(_cache_expiry, KeyOf(t), now + CacheMinutes)
    /\ ThreadStep(t, [call.thread[t] EXCEPT
            !.at = "211", !.out = [events |-> SharedEvents(call.thread[t].email)]])
    /\ UNCHANGED _calendar_cache

(* Lines 211-215 of the pool that ran the call: the events, or [] for a    *)
(* call that raised                                                        *)
ResultCollected(t) ==
    /\ call.thread[t].at = "211"
    /\ ThreadStep(t, [call.thread[t] EXCEPT
            !.at = "done",
            !.result = IF "raised" \in DOMAIN call.thread[t].out
                        THEN [events |-> <<>>] ELSE call.thread[t].out])
    /\ UNCHANGED <<_calendar_cache, _cache_expiry>>

(* A minute passes while the threads run *)
ClockAdvances ==
    /\ ticks < MaxTicks
    /\ now' = now + 1
    /\ ticks' = ticks + 1
    /\ UNCHANGED <<pc, request_data, meeting_params, providerEvents, _calendar_cache,
                   _cache_expiry, heap, iteration, best_result, best_score, returned,
                   before_snapshot, attempts, call>>

ThreadsNext ==
    \/ \E t \in Threads : CacheLookup(t)
    \/ \E t \in Threads : ReadExpiry(t)
    \/ \E t \in Threads : CompareExpiry(t)
    \/ \E t \in Threads : EvictEvents(t)
    \/ \E t \in Threads : EvictExpiry(t)
    \/ \E t \in Threads : ReturnCached(t)
    \/ \E t \in Threads : FetchFromProvider(t)
    \/ \E t \in Threads : StoreEvents(t)
    \/ \E t \in Threads : StoreExpiry(t)
    \/ \E t \in Threads : ResultCollected(t)
    \/ ClockAdvances

ThreadsSpec == ThreadsInit /\ [][ThreadsNext]_vars

-----------------------------------------------------------------------------
(* Properties of the shared cache (ThreadsSpec)                            *)

(* C39: a get_user_events call that found its cache entry valid returns    *)
(* the entry's events: it does not raise, and the pool that ran it holds   *)
(* the participant's events, not an empty calendar.                        *)
C39_ValidEntryIsReturned ==
    \A t \in Threads :
        call.thread[t].valid = "True" =>
            /\ call.thread[t].out \in {None, [events |-> SharedEvents(call.thread[t].email)]}
            /\ call.thread[t].result \in {None, [events |-> SharedEvents(call.thread[t].email)]}

====
